---- MODULE Spec2Model ----
(***************************************************************************)
(* Model of the Dicom_viewer backend: the Study Cache, plan persistence,   *)
(* the reconstruction engine and the volume-resolution orchestrator with   *)
(* its bounded result cache.                                               *)
(*                                                                         *)
(* Python strings are sequences of one-character strings, so that          *)
(* formatting (f-strings) and str.replace are computed, not assumed.       *)
(* numpy arrays are objects on a heap: the Study Cache and the             *)
(* orchestrator cache hold references (basic slicing returns a view).      *)
(***************************************************************************)
EXTENDS Integers, Sequences, FiniteSets, TLC

\* ------------------------------------------------------------------ bounds
MaxLoads == 2          \* load_dicom_series runs explored per behaviour
MaxPixel == 1          \* scout height; pixel rows drawn from 0..MaxPixel
MaxCalls == 5          \* get_cached_volume calls started by the worker threads together
MaxFiles == 3          \* files in a case directory handed to the assembler
MaxSlices == 3         \* slices of a volume handed to the cropper and the planning mapper

\* ------------------------------------------------------- program constants
CacheCapacity == 3     \* len(_volume_cache) > 3
DefaultWC == 40
DefaultWW == 400
ScoutWL == 40
ScoutWW == 300

\* ----------------------------------------------------------------- strings
None == <<"N", "o", "n", "e", "T", "y", "p", "e">>   \* Python's None (never a str value below)
NoneText == <<"n", "o", "n", "e">>                   \* the literal 'none'
TrueText == <<"T", "r", "u", "e">>
FalseText == <<"F", "a", "l", "s", "e">>
Underscore == <<"_">>

\* str(b) for a bool, as an f-string formats it
BoolStr(b) == IF b THEN TrueText ELSE FalseText

\* str(n) for a small non-negative int
RECURSIVE IntStr(_)
IntStr(n) ==
    LET d == <<"0", "1", "2", "3", "4", "5", "6", "7", "8", "9">>
    IN  IF n < 10 THEN <<d[n + 1]>> ELSE IntStr(n \div 10) \o <<d[(n % 10) + 1]>>

\* case_id.replace("/", "_")
SafeCaseId(case_id) ==
    [i \in 1..Len(case_id) |-> IF case_id[i] = "/" THEN "_" ELSE case_id[i]]

\* "if recon_id:" -- None and "" are both falsy
Truthy(s) == s # None /\ s # <<>>

\* ---------------------------------------------------------------- datasets
\* The case directories under DATA_ROOT.  A file record is what pydicom
\* reads: z = ImagePositionPatient[2], px = pixel_array (row-major),
\* slope/intercept = RescaleSlope/RescaleIntercept, wc/ww = window tags
\* (hasWC/hasWW = tag present), ok = decodable.
CaseAB == <<"a", "/", "b">>
CaseA_B == <<"a", "_", "b">>
CaseMissing == <<"z">>
Cases == {CaseAB, CaseA_B, CaseMissing}

File(z, px, hasW, wc, ww) ==
    [z |-> z, px |-> px, hasSlope |-> TRUE, slope |-> 1,
     hasIntercept |-> TRUE, intercept |-> -1000,
     hasWC |-> hasW, wc |-> wc, hasWW |-> hasW, ww |-> ww, ok |-> TRUE]

\* os.listdir order is arbitrary: the files are not listed in z order
Listing(case_id) ==
    IF case_id = CaseAB
    THEN << File(2, << <<1500, 1040>> >>, TRUE, 50, 350),
            File(0, << <<0, 1040>> >>, TRUE, 50, 350),
            File(1, << <<1040, 900>> >>, TRUE, 50, 350) >>
    ELSE IF case_id = CaseA_B
    THEN << File(10, << <<1040, 0>> >>, FALSE, 0, 0),
            File(11, << <<1200, 1040>> >>, FALSE, 0, 0) >>
    ELSE <<>>

DirExists(case_id) == case_id \in {CaseAB, CaseA_B}

\* ---------------------------------------------------------------- assembler
\* an insertion that puts a slice before the slices of equal z
RECURSIVE InsertByZ_unstable(_, _)
InsertByZ_unstable(sorted, f) ==
    IF sorted = <<>> THEN <<f>>
    ELSE IF sorted[Len(sorted)].z < f.z THEN Append(sorted, f)
    ELSE Append(InsertByZ_unstable(SubSeq(sorted, 1, Len(sorted) - 1), f),
                sorted[Len(sorted)])

\* list.sort(key=z): stable insertion sort
RECURSIVE InsertByZ(_, _)
InsertByZ(sorted, f) ==
    IF sorted = <<>> THEN <<f>>
    ELSE IF sorted[Len(sorted)].z <= f.z THEN Append(sorted, f)
    ELSE Append(InsertByZ(SubSeq(sorted, 1, Len(sorted) - 1), f), sorted[Len(sorted)])

\* the datasets left in the order they were read
SortByZ_unsorted(files) == files

RECURSIVE SortByZ(_)
SortByZ(files) ==
    IF files = <<>> THEN <<>>
    ELSE InsertByZ(SortByZ(SubSeq(files, 1, Len(files) - 1)), files[Len(files)])

Decodable(files) == SelectSeq(files, LAMBDA f : f.ok)

\* lines 81-82: float(getattr(ref_ds, "RescaleSlope", 1.0)) and
\* float(getattr(ref_ds, "RescaleIntercept", 0.0))
RescaleSlope(ds) == IF ds.hasSlope THEN ds.slope ELSE 1
RescaleIntercept(ds) == IF ds.hasIntercept THEN ds.intercept ELSE 0

\* load_dicom_series steps 3-5 on the sorted datasets: the result dict
stack_series(datasets) ==
    [ok |-> TRUE,
     \* HU conversion uses the first slice's rescale values for every slice
     volume |-> [i \in 1..Len(datasets) |->
                   [y \in 1..Len(datasets[i].px) |->
                      [x \in 1..Len(datasets[i].px[y]) |->
                         datasets[i].px[y][x] * RescaleSlope(datasets[1])
                            + RescaleIntercept(datasets[1])]]],
     datasets |-> datasets,
     z_positions |-> [i \in 1..Len(datasets) |-> datasets[i].z],
     origin |-> datasets[1].z]

\* load_dicom_series on a directory (exists, the files os.listdir returns in
\* that order): the result dict, or the exception raised
load_series(exists, listing) ==
    IF ~exists THEN [ok |-> FALSE, err |-> "FileNotFoundError"]
    ELSE IF Len(listing) = 0 THEN [ok |-> FALSE, err |-> "RuntimeError"]
    ELSE IF Len(Decodable(listing)) = 0 THEN [ok |-> FALSE, err |-> "RuntimeError"]
    \* lines 73-75: the default argument z_positions[1] - z_positions[0] is
    \* evaluated before getattr looks for the SliceThickness tag
    ELSE IF Len(Decodable(listing)) = 1 THEN [ok |-> FALSE, err |-> "IndexError"]
    ELSE stack_series(SortByZ(Decodable(listing)))

\* load_dicom_series: the result dict, or a failure tag
load_dicom_series(case_id) == load_series(DirExists(case_id), Listing(case_id))

\* extract_series_metadata(...)["window"]
WindowOf(datasets) ==
    [center |-> IF datasets[1].hasWC THEN datasets[1].wc ELSE DefaultWC,
     width  |-> IF datasets[1].hasWW THEN datasets[1].ww ELSE DefaultWW]

\* ------------------------------------------------------------------- state
VARIABLES
    studyCache,    \* _STUDY_CACHE: case id -> heap reference (0 = key absent)
    heap,          \* the study dicts ever loaded; heap[i].volume is the ndarray
    planFiles,     \* PLANNING_ROOT/<safe>.json: safe case id -> plan record
    niiFiles,      \* PLANNING_ROOT/<safe>/recon/<id>.nii: <<safe, id>> -> volume written
    seriesDirs,    \* PLANNING_ROOT/<safe>/recon/<id>/: <<safe, id>> -> slice files
    volumeCache,   \* _volume_cache, in dict insertion order
    succeeded,     \* history: <<case, thickness, kernel>> -> first descriptor returned
    threads,       \* in-flight get_cached_volume calls (concurrent model)
    ret            \* the response of the last operation

vars == <<studyCache, heap, planFiles, niiFiles, seriesDirs, volumeCache,
          succeeded, threads, ret>>

diskVars == <<planFiles, niiFiles, seriesDirs>>

\* ------------------------------------------------------------- study cache
\* lines 19-22: cache what the assembler returned r, a failure propagates
store_study(cache, hp, case_id, r) ==
    IF r.ok
    THEN [ok |-> TRUE, ref |-> Len(hp) + 1, loaded |-> TRUE,
          cache |-> [cache EXCEPT ![case_id] = Len(hp) + 1],
          heap |-> Append(hp, [case |-> case_id, volume |-> r.volume,
                               datasets |-> r.datasets,
                               z_positions |-> r.z_positions])]
    ELSE [ok |-> FALSE, err |-> r.err, ref |-> 0, loaded |-> TRUE,
          cache |-> cache, heap |-> hp]

\* get_study without the membership test: assembles on every call
get_study_reloads(cache, hp, case_id) ==
    store_study(cache, hp, case_id, load_dicom_series(case_id))

\* get_study(case_id, case_path): the returned dict (by reference) and the
\* cache/heap after the call
get_study(cache, hp, case_id) ==
    IF cache[case_id] # 0
    THEN [ok |-> TRUE, ref |-> cache[case_id], loaded |-> FALSE, cache |-> cache, heap |-> hp]
    ELSE store_study(cache, hp, case_id, load_dicom_series(case_id))

\* the load budget: a call that would assemble is explored while loads remain
CanStudy(case_id) ==
    studyCache[case_id] # 0 \/ ~load_dicom_series(case_id).ok \/ Len(heap) < MaxLoads

\* clear_study(case_id)
clear_study(cache, case_id) ==
    IF cache[case_id] # 0 THEN [cache EXCEPT ![case_id] = 0] ELSE cache

GetStudy(c) ==
    /\ CanStudy(c)
    /\ \E s \in {get_study(studyCache, heap, c)} :
           /\ studyCache' = s.cache
           /\ heap' = s.heap
           /\ ret' = [op |-> "get_study", case |-> c, ok |-> s.ok,
                      ref |-> s.ref, loaded |-> s.loaded]
    /\ UNCHANGED <<diskVars, volumeCache, succeeded, threads>>

ClearStudy(c) ==
    /\ studyCache' = clear_study(studyCache, c)
    /\ ret' = [op |-> "clear_study", case |-> c]
    /\ UNCHANGED <<heap, diskVars, volumeCache, succeeded, threads>>

\* ------------------------------------------------------------------- scout
Clip(v, lo, hi) == IF v < lo THEN lo ELSE IF v > hi THEN hi ELSE v

ClipVolume(volume, lo, hi) ==
    [i \in 1..Len(volume) |->
       [y \in 1..Len(volume[i]) |->
          [x \in 1..Len(volume[i][y]) |-> Clip(volume[i][y][x], lo, hi)]]]

\* generate_scout's effect on the array passed in: astype(float32, copy=False)
\* of a float32 array is the array itself, and np.clip(..., out=vol) writes
\* the windowed values into it
generate_scout_input_after(volume) ==
    ClipVolume(volume, ScoutWL - ScoutWW \div 2, ScoutWL + ScoutWW \div 2)

ScoutTypes == {"frontal", "lateral"}

\* GET /scout/{case_id}
GetScout(c, type) ==
    /\ CanStudy(c)
    /\ \E s \in {get_study(studyCache, heap, c)} :
           /\ studyCache' = s.cache
           /\ IF s.ok
              THEN /\ heap' = [s.heap EXCEPT ![s.ref].volume = generate_scout_input_after(@)]
                   /\ ret' = [op |-> "get_scout", case |-> c, status |-> 200,
                              rows |-> Len(s.heap[s.ref].volume),
                              cols |-> IF type = "frontal"
                                       THEN Len(s.heap[s.ref].volume[1][1])
                                       ELSE Len(s.heap[s.ref].volume[1])]
              ELSE /\ heap' = s.heap
                   /\ ret' = [op |-> "get_scout", case |-> c, status |-> 500]
    /\ UNCHANGED <<diskVars, volumeCache, succeeded, threads>>

\* GET /viewer/hu/{case_id}/{slice_index}?x=&y=
GetHU(c, slice_index, y, x) ==
    /\ CanStudy(c)
    /\ IF ~DirExists(c)
       THEN /\ ret' = [op |-> "get_hu_value", case |-> c, status |-> 404]
            /\ UNCHANGED <<studyCache, heap>>
       ELSE \E s \in {get_study(studyCache, heap, c)} :
            LET volume == s.heap[s.ref].volume
            IN  /\ studyCache' = s.cache
                /\ heap' = s.heap
                /\ ret' = IF ~s.ok
                          THEN [op |-> "get_hu_value", case |-> c, status |-> 500]
                          ELSE IF slice_index < 0 \/ slice_index >= Len(volume)
                          THEN [op |-> "get_hu_value", case |-> c, status |-> 400]
                          ELSE IF x < 0 \/ x >= Len(volume[1][1]) \/ y < 0 \/ y >= Len(volume[1])
                          THEN [op |-> "get_hu_value", case |-> c, status |-> 400]
                          ELSE [op |-> "get_hu_value", case |-> c, status |-> 200,
                                slice_index |-> slice_index, pixel_y |-> y, pixel_x |-> x,
                                hu_value |-> volume[slice_index + 1][y + 1][x + 1]]
    /\ UNCHANGED <<diskVars, volumeCache, succeeded, threads>>

\* ---------------------------------------------------------------- planning
\* A millimetre value is an exact fraction <<numerator, denominator>> in lowest
\* terms with a positive denominator (the code's floats, without rounding).
Abs(n) == IF n < 0 THEN -n ELSE n

RECURSIVE Gcd(_, _)
Gcd(a, b) == IF b = 0 THEN a ELSE Gcd(b, a % b)

Frac(n, d) ==
    LET g == Gcd(Abs(n), d) IN IF g = 0 THEN <<0, 1>> ELSE <<n \div g, d \div g>>

SeqMin(q) == CHOOSE m \in {q[i] : i \in 1..Len(q)} : \A i \in 1..Len(q) : m <= q[i]
SeqMax(q) == CHOOSE m \in {q[i] : i \in 1..Len(q)} : \A i \in 1..Len(q) : m >= q[i]

\* the ratios taken with integer division (z_pixel // scout_height_px)
map_scout_pixels_to_z_mm_floor(z_pixel_start, z_pixel_end, scout_height_px, z_min_mm, z_max_mm) ==
    << Frac(z_min_mm + (z_pixel_start \div scout_height_px) * (z_max_mm - z_min_mm), 1),
       Frac(z_min_mm + (z_pixel_end \div scout_height_px) * (z_max_mm - z_min_mm), 1) >>

\* map_scout_pixels_to_z_mm (scout_height_px > 0)
map_scout_pixels_to_z_mm(z_pixel_start, z_pixel_end, scout_height_px, z_min_mm, z_max_mm) ==
    << Frac(z_min_mm * scout_height_px + z_pixel_start * (z_max_mm - z_min_mm), scout_height_px),
       Frac(z_min_mm * scout_height_px + z_pixel_end * (z_max_mm - z_min_mm), scout_height_px) >>

\* sorted(z_positions) for a list of ints
RECURSIVE SortInts(_)
SortInts(q) ==
    IF q = <<>> THEN <<>>
    ELSE LET m == SeqMin(q)
             k == CHOOSE i \in 1..Len(q) : q[i] = m
         IN  <<m>> \o SortInts(SubSeq(q, 1, k - 1) \o SubSeq(q, k + 1, Len(q)))

\* the minimum taken from the far end: the last minimal index
find_closest_index_last(zs, z_mm) ==
    LET dist(i) == Abs(zs[i] * z_mm[2] - z_mm[1])
    IN  (CHOOSE i \in 1..Len(zs) :
            /\ \A j \in 1..Len(zs) : dist(i) <= dist(j)
            /\ \A j \in (i + 1)..Len(zs) : dist(j) > dist(i)) - 1

\* find_closest_index: min(range(n), key=|z[i] - z_mm|), the first minimal index (0-based)
find_closest_index(zs, z_mm) ==
    LET dist(i) == Abs(zs[i] * z_mm[2] - z_mm[1])
    IN  (CHOOSE i \in 1..Len(zs) :
            /\ \A j \in 1..Len(zs) : dist(i) <= dist(j)
            /\ \A j \in 1..(i - 1) : dist(j) > dist(i)) - 1

\* lines 81-85: slice_start = min(...), slice_end = max(...)
ordered_pair(start_idx, end_idx) ==
    << IF start_idx <= end_idx THEN start_idx ELSE end_idx,
       IF start_idx <= end_idx THEN end_idx ELSE start_idx >>

\* lines 78-79 on the sorted positions
closest_pair(zs, z_start_mm, z_end_mm) ==
    ordered_pair(find_closest_index(zs, z_start_mm), find_closest_index(zs, z_end_mm))

\* lines 78-85 as the function returns them
index_pair(pair) == [ok |-> TRUE, slice_start |-> pair[1], slice_end |-> pair[2]]

\* map_z_mm_to_slice_indices: the index pair, or the ValueError of an empty list
map_z_mm_to_slice_indices(z_start_mm, z_end_mm, z_positions) ==
    IF Len(z_positions) = 0 THEN [ok |-> FALSE, err |-> "ValueError"]
    ELSE index_pair(closest_pair(SortInts(z_positions), z_start_mm, z_end_mm))

\* lines 126-131: the dict generate_planning_geometry returns
plan_dict(mm, idx) ==
    [ok |-> TRUE,
     plan |-> [z_start_mm |-> mm[1], z_end_mm |-> mm[2],
               slice_start |-> idx.slice_start, slice_end |-> idx.slice_end]]

\* lines 120-124 for the mm pair already computed
plan_for_mm(mm, z_positions) ==
    plan_dict(mm, map_z_mm_to_slice_indices(mm[1], mm[2], z_positions))

\* generate_planning_geometry: the plan dict, or the ValueError of min() on
\* an empty list (line 109) or of a non-positive scout height (line 33)
generate_planning_geometry(z_pixel_start, z_pixel_end, scout_height_px, z_positions) ==
    IF Len(z_positions) = 0 THEN [ok |-> FALSE]
    ELSE IF scout_height_px <= 0 THEN [ok |-> FALSE]
    ELSE plan_for_mm(map_scout_pixels_to_z_mm(z_pixel_start, z_pixel_end, scout_height_px,
                                              SeqMin(z_positions), SeqMax(z_positions)),
                     z_positions)

PlanExists(case_id) == SafeCaseId(case_id) \in DOMAIN planFiles

\* dict assignment on a function used as a directory / dict
Put(f, k, v) == [x \in DOMAIN f \cup {k} |-> IF x = k THEN v ELSE f[x]]

FovInputs == {[x_min |-> 0, x_max |-> 1, y_min |-> 0, y_max |-> 0]}

\* POST /planning/
SavePlanning(c, z_pixel_start, z_pixel_end, scout_height_px, fov) ==
    /\ CanStudy(c)
    /\ \E s \in {get_study(studyCache, heap, c)} :
       \E g \in {IF s.ok
                  THEN generate_planning_geometry(z_pixel_start, z_pixel_end, scout_height_px,
                                                  s.heap[s.ref].z_positions)
                  ELSE [ok |-> FALSE]} :
           /\ studyCache' = s.cache
           /\ heap' = s.heap
           /\ IF s.ok /\ g.ok
              THEN LET planning == [z_start_mm |-> g.plan.z_start_mm,
                                    z_end_mm |-> g.plan.z_end_mm,
                                    slice_start |-> g.plan.slice_start,
                                    slice_end |-> g.plan.slice_end,
                                    fov |-> fov]
                   IN  /\ planFiles' = Put(planFiles, SafeCaseId(c), planning)
                       /\ ret' = [op |-> "save_planning", case |-> c, status |-> 200,
                                  planning |-> planning]
              ELSE /\ planFiles' = planFiles
                   /\ ret' = [op |-> "save_planning", case |-> c, status |-> 500]
    /\ UNCHANGED <<niiFiles, seriesDirs, volumeCache, succeeded, threads>>

\* GET /planning/get/{case_id}.  Line 55 raises http.client.HTTPException
\* (the import of line 1) with a keyword argument: constructing it raises
\* TypeError, which the framework answers with 500.
GetPlanning(c) ==
    /\ ret' = IF PlanExists(c)
              THEN [op |-> "get_planning", case |-> c, status |-> 200,
                    planning |-> planFiles[SafeCaseId(c)]]
              ELSE [op |-> "get_planning", case |-> c, status |-> 500,
                    exception |-> "TypeError"]
    /\ UNCHANGED <<studyCache, heap, diskVars, volumeCache, succeeded, threads>>

\* ------------------------------------------------------------------ cropper
\* crop_volume_z slicing volume[slice_start:slice_end], the end left out
crop_volume_z_exclusive(num_slices, slice_start, slice_end) ==
    LET z_max == num_slices - 1
        s == IF slice_start < 0 THEN 0 ELSE slice_start
        e == IF slice_end > z_max THEN z_max ELSE slice_end
    IN  IF s > e THEN [ok |-> FALSE] ELSE [ok |-> TRUE, first |-> s, last |-> e - 1]

\* crop_volume_z as index arithmetic: the kept 0-based range, or ValueError
crop_volume_z(num_slices, slice_start, slice_end) ==
    LET z_max == num_slices - 1
        s == IF slice_start < 0 THEN 0 ELSE slice_start
        e == IF slice_end > z_max THEN z_max ELSE slice_end
    IN  IF s > e THEN [ok |-> FALSE] ELSE [ok |-> TRUE, first |-> s, last |-> e]

\* crop_volume lines 115-129 for the range c that crop_volume_z kept
cropped(volume, c, slice_start, slice_end, fov) ==
    IF ~c.ok THEN [ok |-> FALSE, err |-> "ValueError"]
    ELSE [ok |-> TRUE,
          volume |-> SubSeq(volume, c.first + 1, c.last + 1),
          geometry |-> [num_slices |-> c.last - c.first + 1,
                        slice_start |-> slice_start, slice_end |-> slice_end,
                        fov |-> fov]]

\* crop_volume(volume, slice_start, slice_end, fov)
crop_volume(volume, slice_start, slice_end, fov) ==
    cropped(volume, crop_volume_z(Len(volume), slice_start, slice_end),
            slice_start, slice_end, fov)

\* ------------------------------------------------- orchestrator result cache
\* A Python dict as a sequence of [key, val] in insertion order.
DictHas(d, k) == \E i \in 1..Len(d) : d[i].key = k
DictGet(d, k) == d[CHOOSE i \in 1..Len(d) : d[i].key = k].val
\* d[k] = v: a new key goes last, an existing key keeps its position
DictSet(d, k, v) ==
    IF DictHas(d, k)
    THEN [i \in 1..Len(d) |-> IF d[i].key = k THEN [key |-> k, val |-> v] ELSE d[i]]
    ELSE Append(d, [key |-> k, val |-> v])
DictDel(d, k) == SelectSeq(d, LAMBDA e : e.key # k)

\* f"{case_id}_{use_planning}_{recon_id or 'none'}"
cache_key(case_id, use_planning, recon_id) ==
    case_id \o Underscore \o BoolStr(use_planning) \o Underscore
        \o (IF Truthy(recon_id) THEN recon_id ELSE NoneText)

\* The contents of an array reference: a view of a study volume (numpy basic
\* slicing shares the buffer) or an array of its own.
Materialise(hp, vol) ==
    IF vol.kind = "view" THEN SubSeq(hp[vol.ref].volume, vol.first + 1, vol.last + 1)
    ELSE vol.data

ReconDirExists(case_id, recon_id) == <<SafeCaseId(case_id), recon_id>> \in DOMAIN seriesDirs
ReconFiles(case_id, recon_id) == seriesDirs[<<SafeCaseId(case_id), recon_id>>]

\* get_cached_volume lines 27-85: the entry to store on a cache miss, or the
\* error raised; s is the get_study result (used on the non-reconstruction path).
\* owner is history: the request the entry was computed for.
load_entry(s, case_id, use_planning, recon_id) ==
    IF Truthy(recon_id)
    THEN IF ~ReconDirExists(case_id, recon_id) THEN [ok |-> FALSE, status |-> 404]
         ELSE IF Len(ReconFiles(case_id, recon_id)) = 0 THEN [ok |-> FALSE, status |-> 404]
         ELSE LET files == ReconFiles(case_id, recon_id)
              IN  [ok |-> TRUE,
                   entry |-> [owner |-> <<case_id, use_planning, recon_id>>,
                              volume |-> [kind |-> "array",
                                          data |-> [i \in 1..Len(files) |-> files[i].px]],
                              wc |-> IF files[1].hasWC /\ files[1].hasWW
                                     THEN files[1].wc ELSE DefaultWC,
                              ww |-> IF files[1].hasWC /\ files[1].hasWW
                                     THEN files[1].ww ELSE DefaultWW]]
    ELSE IF ~s.ok THEN [ok |-> FALSE, status |-> 500]
    ELSE LET study == s.heap[s.ref]
             n == Len(study.volume)
             meta == WindowOf(study.datasets)
         IN  IF use_planning /\ PlanExists(case_id)
             THEN LET planning == planFiles[SafeCaseId(case_id)]
                      c == crop_volume_z(n, planning.slice_start, planning.slice_end)
                  IN  IF ~c.ok THEN [ok |-> FALSE, status |-> 500]
                      ELSE [ok |-> TRUE,
                            entry |-> [owner |-> <<case_id, use_planning, recon_id>>,
                                       volume |-> [kind |-> "view", ref |-> s.ref,
                                                   first |-> c.first, last |-> c.last],
                                       wc |-> meta.center, ww |-> meta.width]]
             ELSE [ok |-> TRUE,
                   entry |-> [owner |-> <<case_id, use_planning, recon_id>>,
                              volume |-> [kind |-> "view", ref |-> s.ref,
                                          first |-> 0, last |-> n - 1],
                              wc |-> meta.center, ww |-> meta.width]]

\* eviction taking the last key of the dict instead of the first
evict_newest(d) == IF Len(d) > CacheCapacity THEN DictDel(d, d[Len(d)].key) ELSE d

\* lines 94-97: drop the first key once the dict holds more than 3 entries
evict(d) == IF Len(d) > CacheCapacity THEN DictDel(d, d[1].key) ELSE d

\* lines 87-99 for the loaded entry l: store, evict, read back
store_entry(k, s, l) ==
    IF ~l.ok
    THEN [ok |-> FALSE, status |-> l.status, hit |-> FALSE,
          stored |-> FALSE, evicted |-> FALSE,
          vcache |-> volumeCache, cache |-> s.cache, heap |-> s.heap]
    ELSE LET stored == DictSet(volumeCache, k, l.entry)
             d == evict(stored)
         IN  IF DictHas(d, k)
             THEN [ok |-> TRUE, hit |-> FALSE, stored |-> TRUE,
                   evicted |-> Len(d) < Len(stored), entry |-> DictGet(d, k),
                   vcache |-> d, cache |-> s.cache, heap |-> s.heap]
             ELSE \* KeyError at line 99
                  [ok |-> FALSE, status |-> 500, hit |-> FALSE, stored |-> TRUE,
                   evicted |-> Len(d) < Len(stored),
                   vcache |-> d, cache |-> s.cache, heap |-> s.heap]

\* lines 26-99 on a cache miss; s is the get_study result
resolve_miss(case_id, use_planning, recon_id, s) ==
    store_entry(cache_key(case_id, use_planning, recon_id), s,
                load_entry(s, case_id, use_planning, recon_id))

\* the reconstruction path does not touch the Study Cache
NoStudy == [ok |-> FALSE, ref |-> 0, loaded |-> FALSE, cache |-> studyCache, heap |-> heap]

\* get_cached_volume run to completion: the returned entry (or error) and
\* the caches after the call
get_cached_volume(case_id, use_planning, recon_id) ==
    IF DictHas(volumeCache, cache_key(case_id, use_planning, recon_id))
    THEN [ok |-> TRUE, hit |-> TRUE, stored |-> FALSE, evicted |-> FALSE,
          entry |-> DictGet(volumeCache, cache_key(case_id, use_planning, recon_id)),
          vcache |-> volumeCache, cache |-> studyCache, heap |-> heap]
    ELSE resolve_miss(case_id, use_planning, recon_id,
                      IF Truthy(recon_id) THEN NoStudy
                      ELSE get_study(studyCache, heap, case_id))

\* the load budget for a resolution
CanResolve(case_id, use_planning, recon_id) ==
    \/ DictHas(volumeCache, cache_key(case_id, use_planning, recon_id))
    \/ Truthy(recon_id)
    \/ CanStudy(case_id)

\* a direct call of get_cached_volume
Resolve(c, use_planning, recon_id) ==
    /\ CanResolve(c, use_planning, recon_id)
    /\ \E r \in {get_cached_volume(c, use_planning, recon_id)} :
           /\ volumeCache' = r.vcache
           /\ studyCache' = r.cache
           /\ heap' = r.heap
           /\ ret' = IF r.ok
                     THEN [op |-> "get_cached_volume", case |-> c,
                           use_planning |-> use_planning, recon_id |-> recon_id,
                           status |-> 200, hit |-> r.hit, stored |-> r.stored,
                           evicted |-> r.evicted, owner |-> r.entry.owner,
                           volume |-> Materialise(r.heap, r.entry.volume),
                           wc |-> r.entry.wc, ww |-> r.entry.ww]
                     ELSE [op |-> "get_cached_volume", case |-> c,
                           use_planning |-> use_planning, recon_id |-> recon_id,
                           status |-> r.status, hit |-> r.hit, stored |-> r.stored,
                           evicted |-> r.evicted]
    /\ UNCHANGED <<diskVars, succeeded, threads>>

\* ------------------------------------------------------ reconstruction engine
KernelSoft == <<"s", "o", "f", "t">>
Kernels == {KernelSoft}

\* f"ST_{thickness}_K_{kernel}"
ReconId(thickness, kernel) ==
    <<"S", "T", "_">> \o IntStr(thickness) \o <<"_", "K", "_">> \o kernel

\* output_path and the series URL, as path segments
VolumeUrl(case_id, recon_id) ==
    <<"PLANNING_ROOT", SafeCaseId(case_id), "recon", recon_id \o <<".nii">> >>
SeriesUrl(case_id, recon_id) ==
    <<"", "storage", "plans", SafeCaseId(case_id), "recon", recon_id, "">>

\* load_base_volume lines 28-46 on the sorted datasets
base_image(datasets) ==
    [ok |-> TRUE,
     size_z |-> Len(datasets),
     spacing_z |-> Abs(datasets[2].z - datasets[1].z),
     origin_z |-> datasets[1].z,
     z_positions |-> [i \in 1..Len(datasets) |-> datasets[i].z]]

\* load_base_volume: reads the case directory itself (not the Study Cache);
\* every file must decode and there must be two of them
load_base_volume(case_id) ==
    IF ~DirExists(case_id) THEN [ok |-> FALSE]
    ELSE IF Len(Listing(case_id)) = 0 THEN [ok |-> FALSE]
    ELSE IF Len(Decodable(Listing(case_id))) < Len(Listing(case_id)) THEN [ok |-> FALSE]
    ELSE IF Len(Listing(case_id)) < 2 THEN [ok |-> FALSE]
    ELSE base_image(SortByZ(Listing(case_id)))

\* lines 226-229: the z origin of the cropped image (slice_start indexes the
\* list as Python does, negative values counting from the end)
new_origin_z(base, slice_start) ==
    IF slice_start < Len(base.z_positions)
    THEN base.z_positions[IF slice_start >= 0 THEN slice_start + 1
                          ELSE Len(base.z_positions) + slice_start + 1]
    ELSE base.origin_z + slice_start * base.spacing_z

\* lines 196-243 on the loaded base image: crop to the plan, kernel, resample,
\* enhance.  The filters are collaborators: a derived voxel is named by what
\* it was computed from.  cropped and plan are history: whether the branch of
\* lines 196-234 ran, and with which plan.
reconstruct_from(base, case_id, thickness, kernel, use_planning, planning_data) ==
    IF ~base.ok THEN [ok |-> FALSE]
    ELSE IF use_planning /\ planning_data # <<>>
    THEN LET plan == planning_data[1]
             c == crop_volume_z(base.size_z, plan.slice_start, plan.slice_end)
         IN  IF ~c.ok THEN [ok |-> FALSE]
             ELSE IF plan.slice_start < -Len(base.z_positions) THEN [ok |-> FALSE]
             ELSE [ok |-> TRUE, src |-> case_id, first |-> c.first, last |-> c.last,
                   origin_z |-> new_origin_z(base, plan.slice_start),
                   depth |-> ((c.last - c.first + 1) * base.spacing_z) \div thickness,
                   kernel |-> kernel, thickness |-> thickness,
                   cropped |-> TRUE, plan |-> planning_data]
    ELSE [ok |-> TRUE, src |-> case_id, first |-> 0, last |-> base.size_z - 1,
          origin_z |-> base.origin_z,
          depth |-> (base.size_z * base.spacing_z) \div thickness,
          kernel |-> kernel, thickness |-> thickness,
          cropped |-> FALSE, plan |-> <<>>]

\* lines 193-243
reconstruct(case_id, thickness, kernel, use_planning, planning_data) ==
    reconstruct_from(load_base_volume(case_id), case_id, thickness, kernel,
                     use_planning, planning_data)

\* the slice file save_as_dicom_series writes for index z (0-based)
DerivedSlice(image, z) ==
    [idx |-> z, z |-> image.origin_z + z * image.thickness,
     px |-> [src |-> image.src, first |-> image.first, last |-> image.last,
             kernel |-> image.kernel, thickness |-> image.thickness, k |-> z],
     hasWC |-> FALSE, hasWW |-> FALSE, wc |-> 0, ww |-> 0]

\* files IM_0000.. written over whatever the directory held
WriteSlices(old, image, count) ==
    [i \in 1..(IF Len(old) > count THEN Len(old) ELSE count) |->
        IF i <= count THEN DerivedSlice(image, i - 1) ELSE old[i]]

\* where an artifact write may fail: nowhere, at the volume file, or at slice k
NoFail == <<"none", 0>>
FailNii == <<"nii", 0>>
FailPoints(depth) == {NoFail, FailNii} \cup {<<"slice", k>> : k \in 0..(depth - 1)}

Descriptor(case_id, thickness, kernel, use_planning, planning_data) ==
    [recon_id |-> ReconId(thickness, kernel),
     volume_url |-> VolumeUrl(case_id, ReconId(thickness, kernel)),
     dicom_series_url |-> SeriesUrl(case_id, ReconId(thickness, kernel)),
     planning_ref |-> planning_data,
     used_planning |-> use_planning /\ planning_data # <<>>]

\* history of the first descriptor returned for a parameter set
Remember(hist, case_id, thickness, kernel) ==
    IF <<case_id, thickness, kernel>> \in DOMAIN hist THEN hist
    ELSE Put(hist, <<case_id, thickness, kernel>>,
             [recon_id |-> ReconId(thickness, kernel),
              volume_url |-> VolumeUrl(case_id, ReconId(thickness, kernel)),
              dicom_series_url |-> SeriesUrl(case_id, ReconId(thickness, kernel))])

\* the existence check removed: every call runs the pipeline
ArtifactExists_never(case_id, recon_id) == FALSE

\* the existence check of lines 177-190
ArtifactExists(case_id, recon_id) == <<SafeCaseId(case_id), recon_id>> \in DOMAIN niiFiles

\* POST /reconstruction/apply
ApplyReconstruction(c, thickness, kernel, use_planning, planning, fail) ==
    LET planning_data == IF use_planning /\ planning = <<>> /\ PlanExists(c)
                         THEN <<planFiles[SafeCaseId(c)]>> ELSE planning
        recon_id == ReconId(thickness, kernel)
        dir == <<SafeCaseId(c), recon_id>>
        call == [op |-> "apply_reconstruction", case |-> c, thickness |-> thickness,
                 kernel |-> kernel]
        old == IF dir \in DOMAIN seriesDirs THEN seriesDirs[dir] ELSE <<>>
    IN  /\ \E image \in {reconstruct(c, thickness, kernel, use_planning, planning_data)} :
           IF ArtifactExists(c, recon_id)
           THEN /\ fail = NoFail
                /\ ret' = call @@ [status |-> 200, ran |-> FALSE,
                                   desc |-> Descriptor(c, thickness, kernel, use_planning,
                                                       planning_data)]
                /\ UNCHANGED <<niiFiles, seriesDirs>>
                /\ succeeded' = Remember(succeeded, c, thickness, kernel)
           ELSE IF ~image.ok
           THEN /\ fail = NoFail
                /\ ret' = call @@ [status |-> 500, ran |-> FALSE]
                /\ UNCHANGED <<niiFiles, seriesDirs, succeeded>>
           ELSE /\ fail \in FailPoints(image.depth)
                /\ IF fail = FailNii
                   THEN /\ ret' = call @@ [status |-> 500, ran |-> TRUE]
                        /\ UNCHANGED <<niiFiles, seriesDirs, succeeded>>
                   ELSE IF fail # NoFail
                   THEN /\ niiFiles' = Put(niiFiles, dir, image)
                        /\ seriesDirs' = Put(seriesDirs, dir, WriteSlices(old, image, fail[2]))
                        /\ ret' = call @@ [status |-> 500, ran |-> TRUE]
                        /\ UNCHANGED succeeded
                   ELSE /\ niiFiles' = Put(niiFiles, dir, image)
                        /\ seriesDirs' = Put(seriesDirs, dir,
                                             WriteSlices(old, image, image.depth))
                        /\ IF Len(WriteSlices(old, image, image.depth)) = 0
                           THEN /\ ret' = call @@ [status |-> 500, ran |-> TRUE]
                                /\ UNCHANGED succeeded
                           ELSE /\ ret' = call @@ [status |-> 200, ran |-> TRUE,
                                                   desc |-> Descriptor(c, thickness, kernel,
                                                                use_planning, planning_data)]
                                /\ succeeded' = Remember(succeeded, c, thickness, kernel)
        /\ UNCHANGED <<studyCache, heap, planFiles, volumeCache, threads>>

\* -------------------------------------------------------- slice / cine routes
\* Optional[float] query parameters: <<>> is None, <<v>> a supplied value
NoOverride == <<>>

\* apply_window on one HU value (width > 0), exact arithmetic
apply_window(v, center, width) ==
    LET lower2 == 2 * center - width
        upper2 == 2 * center + width
        v2 == Clip(2 * v, lower2, upper2)
    IN  (255 * (v2 - lower2)) \div (2 * width)

\* generate_single_frame: the windowed slice.  A slice of a derived series is
\* windowed by the collaborator's arithmetic on its voxels, kept symbolic.
generate_single_frame(slice_img, kind, window_center, window_width) ==
    IF kind = "view"
    THEN [y \in 1..Len(slice_img) |->
            [x \in 1..Len(slice_img[y]) |->
                apply_window(slice_img[y][x], window_center, window_width)]]
    ELSE [px |-> slice_img, center |-> window_center, width |-> window_width]

\* "override or cached" instead of "is not None": an override of 0 is ignored
final_window_truthy(override, cached) ==
    IF override # NoOverride /\ override[1] # 0 THEN override[1] ELSE cached

\* lines 118-119 / 158-159
final_window(override, cached) == IF override # NoOverride THEN override[1] ELSE cached

\* GET /cine/slice/{case_id}
GetSingleSlice(c, slice_index, use_planning, recon_id, window_center, window_width) ==
    /\ CanResolve(c, use_planning, recon_id)
    /\ \E r \in {get_cached_volume(c, use_planning, recon_id)} :
       LET call == [op |-> "get_single_slice", case |-> c, use_planning |-> use_planning,
                    recon_id |-> recon_id, window_center |-> window_center,
                    window_width |-> window_width, requested |-> slice_index]
       IN  /\ volumeCache' = r.vcache
           /\ studyCache' = r.cache
           /\ heap' = r.heap
           /\ ret' =
                IF ~r.ok THEN call @@ [status |-> r.status]
                ELSE LET volume == Materialise(r.heap, r.entry.volume)
                         n == Len(volume)
                         final_wc == final_window(window_center, r.entry.wc)
                         final_ww == final_window(window_width, r.entry.ww)
                         clamped == IF slice_index < 0 THEN 0
                                    ELSE IF slice_index > n - 1 THEN n - 1 ELSE slice_index
                     IN  \* volume[slice_index] is read before the clamp
                         IF slice_index >= n \/ slice_index < -n
                         THEN call @@ [status |-> 500]
                         ELSE IF final_ww <= 0 THEN call @@ [status |-> 500]
                         ELSE call @@ [status |-> 200,
                                       frame |-> generate_single_frame(volume[clamped + 1],
                                                    r.entry.volume.kind, final_wc, final_ww),
                                       slice_index |-> clamped, total_slices |-> n,
                                       final_wc |-> final_wc, final_ww |-> final_ww]
    /\ UNCHANGED <<diskVars, succeeded, threads>>

\* GET /cine/{case_id}
GetCine(c, use_planning, recon_id, window_center, window_width) ==
    /\ CanResolve(c, use_planning, recon_id)
    /\ \E r \in {get_cached_volume(c, use_planning, recon_id)} :
       LET call == [op |-> "get_cine", case |-> c, use_planning |-> use_planning,
                    recon_id |-> recon_id, window_center |-> window_center,
                    window_width |-> window_width]
       IN  /\ volumeCache' = r.vcache
           /\ studyCache' = r.cache
           /\ heap' = r.heap
           /\ ret' =
                IF ~r.ok THEN call @@ [status |-> r.status]
                ELSE LET volume == Materialise(r.heap, r.entry.volume)
                         final_wc == final_window(window_center, r.entry.wc)
                         final_ww == final_window(window_width, r.entry.ww)
                     IN  IF final_ww <= 0 THEN call @@ [status |-> 500]
                         ELSE call @@ [status |-> 200,
                                       frames |-> [i \in 1..Len(volume) |->
                                                     generate_single_frame(volume[i],
                                                        r.entry.volume.kind, final_wc, final_ww)],
                                       num_frames |-> Len(volume),
                                       final_wc |-> final_wc, final_ww |-> final_ww]
    /\ UNCHANGED <<diskVars, succeeded, threads>>

\* --------------------------------------------------------------- MPR routes
Reverse(q) == [i \in 1..Len(q) |-> q[Len(q) + 1 - i]]

\* an axial bounds check that also rejects index 0
mpr_slice_no_first(volume, orientation, slice_index) ==
    LET z_size == Len(volume)
        y_size == Len(volume[1])
        x_size == Len(volume[1][1])
    IN  IF orientation = "axial"
        THEN IF slice_index <= 0 \/ slice_index >= z_size THEN [ok |-> FALSE]
             ELSE [ok |-> TRUE, img |-> volume[slice_index + 1]]
        ELSE IF orientation = "sagittal"
        THEN IF slice_index < 0 \/ slice_index >= y_size THEN [ok |-> FALSE]
             ELSE [ok |-> TRUE,
                   img |-> Reverse([z \in 1..z_size |-> volume[z][slice_index + 1]])]
        ELSE IF orientation = "coronal"
        THEN IF slice_index < 0 \/ slice_index >= x_size THEN [ok |-> FALSE]
             ELSE [ok |-> TRUE,
                   img |-> Reverse([z \in 1..z_size |->
                                      [y \in 1..y_size |-> volume[z][y][slice_index + 1]]])]
        ELSE [ok |-> FALSE]

\* generate_mpr_slice before windowing: the 2D slice, or ValueError
mpr_slice(volume, orientation, slice_index) ==
    LET z_size == Len(volume)
        y_size == Len(volume[1])
        x_size == Len(volume[1][1])
    IN  IF orientation = "axial"
        THEN IF slice_index < 0 \/ slice_index >= z_size THEN [ok |-> FALSE]
             ELSE [ok |-> TRUE, img |-> volume[slice_index + 1]]
        ELSE IF orientation = "sagittal"
        THEN IF slice_index < 0 \/ slice_index >= y_size THEN [ok |-> FALSE]
             ELSE [ok |-> TRUE,
                   img |-> Reverse([z \in 1..z_size |-> volume[z][slice_index + 1]])]
        ELSE IF orientation = "coronal"
        THEN IF slice_index < 0 \/ slice_index >= x_size THEN [ok |-> FALSE]
             ELSE [ok |-> TRUE,
                   img |-> Reverse([z \in 1..z_size |->
                                      [y \in 1..y_size |-> volume[z][y][slice_index + 1]]])]
        ELSE [ok |-> FALSE]

Orientations == {"axial", "sagittal", "coronal"}

\* GET /viewer/mpr/slice/{case_id}
MprSlice(c, orientation, slice_index) ==
    /\ CanStudy(c)
    /\ LET call == [op |-> "get_mpr_slice", case |-> c, orientation |-> orientation,
                    requested |-> slice_index]
       IN  IF ~DirExists(c)
           THEN /\ ret' = call @@ [status |-> 404]
                /\ UNCHANGED <<studyCache, heap>>
           ELSE \E s \in {get_study(studyCache, heap, c)} :
                LET meta == WindowOf(s.heap[s.ref].datasets)
                    m == mpr_slice(s.heap[s.ref].volume, orientation, slice_index)
                IN  /\ studyCache' = s.cache
                    /\ heap' = s.heap
                    /\ ret' = IF ~s.ok THEN call @@ [status |-> 500]
                              ELSE IF ~m.ok \/ meta.width <= 0 THEN call @@ [status |-> 400]
                              ELSE call @@ [status |-> 200,
                                            image |-> generate_single_frame(m.img, "view",
                                                         meta.center, meta.width)]
    /\ UNCHANGED <<diskVars, volumeCache, succeeded, threads>>

\* GET /viewer/mpr/metadata/{case_id}
MprMetadata(c) ==
    /\ CanStudy(c)
    /\ LET call == [op |-> "get_mpr_metadata", case |-> c]
       IN  IF ~DirExists(c)
           THEN /\ ret' = call @@ [status |-> 404]
                /\ UNCHANGED <<studyCache, heap>>
           ELSE \E s \in {get_study(studyCache, heap, c)} :
                LET volume == s.heap[s.ref].volume
                IN  /\ studyCache' = s.cache
                    /\ heap' = s.heap
                    /\ ret' = IF ~s.ok THEN call @@ [status |-> 500]
                              ELSE call @@ [status |-> 200,
                                            axial_slices |-> Len(volume),
                                            sagittal_slices |-> Len(volume[1]),
                                            coronal_slices |-> Len(volume[1][1])]
    /\ UNCHANGED <<diskVars, volumeCache, succeeded, threads>>

\* GET /viewer/slice/{case_id}/{slice_index}: resolves the volume on every
\* request, without the orchestrator cache
ViewerSlice(c, slice_index, use_planning, recon_id) ==
    LET call == [op |-> "get_viewer_slice", case |-> c, use_planning |-> use_planning,
                 recon_id |-> recon_id, requested |-> slice_index]
    IN  IF Truthy(recon_id)
        THEN /\ ret' = IF ~ReconDirExists(c, recon_id) THEN call @@ [status |-> 404]
                       ELSE IF Len(ReconFiles(c, recon_id)) = 0 THEN call @@ [status |-> 404]
                       ELSE IF slice_index < 0 \/ slice_index >= Len(ReconFiles(c, recon_id))
                       THEN call @@ [status |-> 400]
                       ELSE call @@ [status |-> 200,
                                     slice_img |-> ReconFiles(c, recon_id)[slice_index + 1].px,
                                     total_slices |-> Len(ReconFiles(c, recon_id)),
                                     wc |-> DefaultWC, ww |-> DefaultWW]
             /\ UNCHANGED <<studyCache, heap, diskVars, volumeCache, succeeded, threads>>
        ELSE /\ CanStudy(c)
             /\ \E s \in {get_study(studyCache, heap, c)} :
                \E l \in {load_entry(s, c, use_planning, recon_id)} :
                LET volume == Materialise(s.heap, l.entry.volume)
                IN  /\ studyCache' = s.cache
                    /\ heap' = s.heap
                    /\ ret' = IF ~l.ok THEN call @@ [status |-> 500]
                              ELSE IF slice_index < 0 \/ slice_index >= Len(volume)
                              THEN call @@ [status |-> 200, error |-> "Slice out of range"]
                              ELSE call @@ [status |-> 200,
                                            slice_img |-> volume[slice_index + 1],
                                            total_slices |-> Len(volume),
                                            wc |-> l.entry.wc, ww |-> l.entry.ww]
             /\ UNCHANGED <<diskVars, volumeCache, succeeded, threads>>

\* ------------------------------------- get_cached_volume, thread by thread
\* The routes are plain def handlers, which the framework runs on worker
\* threads; _volume_cache is a module-level dict with no lock around it.
Threads == {"T1", "T2"}

\* a worker between requests; calls counts the requests it has started
IdleThread(n) ==
    [pc |-> "idle", calls |-> n, case |-> <<>>, use_planning |-> FALSE,
     recon_id |-> None, entry |-> <<>>, oldest_key |-> <<>>]

RECURSIVE CallsStarted(_, _)
CallsStarted(th, S) ==
    IF S = {} THEN 0
    ELSE LET t == CHOOSE x \in S : TRUE
         IN  th[t].calls + CallsStarted(th, S \ {t})

ThreadKey(t) == cache_key(threads[t].case, threads[t].use_planning, threads[t].recon_id)

\* the call of thread t ends with the response r
Finish(t, r) ==
    /\ ret' = [op |-> "get_cached_volume", thread |-> t, case |-> threads[t].case,
               use_planning |-> threads[t].use_planning,
               recon_id |-> threads[t].recon_id] @@ r
    /\ threads' = [threads EXCEPT ![t] = IdleThread(threads[t].calls)]

Returned(hp, entry) ==
    [status |-> 200, owner |-> entry.owner, volume |-> Materialise(hp, entry.volume),
     wc |-> entry.wc, ww |-> entry.ww]

\* an exception that no handler catches: the framework answers 500
Raised(exc, line) == [status |-> 500, exception |-> exc, line |-> line]

\* a route handler enters get_cached_volume
Call(t, c, use_planning, recon_id) ==
    /\ threads[t].pc = "idle"
    /\ CallsStarted(threads, Threads) < MaxCalls
    /\ threads' = [threads EXCEPT ![t] =
                      [pc |-> "l23", calls |-> threads[t].calls + 1, case |-> c,
                       use_planning |-> use_planning, recon_id |-> recon_id,
                       entry |-> <<>>, oldest_key |-> <<>>]]
    /\ UNCHANGED <<studyCache, heap, diskVars, volumeCache, succeeded, ret>>

\* line 23: if cache_key in _volume_cache
CheckCached(t) ==
    /\ threads[t].pc = "l23"
    /\ threads' = [threads EXCEPT ![t].pc =
                      IF DictHas(volumeCache, ThreadKey(t)) THEN "l24" ELSE "l27"]
    /\ UNCHANGED <<studyCache, heap, diskVars, volumeCache, succeeded, ret>>

\* line 24: return _volume_cache[cache_key]
ReturnCached(t) ==
    /\ threads[t].pc = "l24"
    /\ IF DictHas(volumeCache, ThreadKey(t))
       THEN Finish(t, Returned(heap, DictGet(volumeCache, ThreadKey(t))))
       ELSE Finish(t, Raised("KeyError", 24))
    /\ UNCHANGED <<studyCache, heap, diskVars, volumeCache, succeeded>>

\* lines 27-85: build the entry (the Study Cache lookup included)
LoadVolume(t) ==
    /\ threads[t].pc = "l27"
    /\ Truthy(threads[t].recon_id) \/ CanStudy(threads[t].case)
    /\ \E s \in {IF Truthy(threads[t].recon_id) THEN NoStudy
                 ELSE get_study(studyCache, heap, threads[t].case)} :
       \E l \in {load_entry(s, threads[t].case, threads[t].use_planning,
                            threads[t].recon_id)} :
          /\ studyCache' = s.cache
          /\ heap' = s.heap
          /\ IF l.ok
             THEN /\ threads' = [threads EXCEPT ![t].pc = "l88", ![t].entry = l.entry]
                  /\ UNCHANGED ret
             ELSE Finish(t, [status |-> l.status])
    /\ UNCHANGED <<diskVars, volumeCache, succeeded>>

\* line 88: _volume_cache[cache_key] = {...}
StoreEntry(t) ==
    /\ threads[t].pc = "l88"
    /\ volumeCache' = DictSet(volumeCache, ThreadKey(t), threads[t].entry)
    /\ threads' = [threads EXCEPT ![t].pc = "l95"]
    /\ UNCHANGED <<studyCache, heap, diskVars, succeeded, ret>>

\* line 95: if len(_volume_cache) > 3
CheckSize(t) ==
    /\ threads[t].pc = "l95"
    /\ threads' = [threads EXCEPT ![t].pc =
                      IF Len(volumeCache) > CacheCapacity THEN "l96" ELSE "l99"]
    /\ UNCHANGED <<studyCache, heap, diskVars, volumeCache, succeeded, ret>>

\* line 96: oldest_key = list(_volume_cache.keys())[0]
PickOldest(t) ==
    /\ threads[t].pc = "l96"
    /\ IF Len(volumeCache) = 0
       THEN Finish(t, Raised("IndexError", 96))
       ELSE /\ threads' = [threads EXCEPT ![t].pc = "l97",
                                          ![t].oldest_key = volumeCache[1].key]
            /\ UNCHANGED ret
    /\ UNCHANGED <<studyCache, heap, diskVars, volumeCache, succeeded>>

\* line 97: del _volume_cache[oldest_key]
DeleteOldest(t) ==
    /\ threads[t].pc = "l97"
    /\ IF DictHas(volumeCache, threads[t].oldest_key)
       THEN /\ volumeCache' = DictDel(volumeCache, threads[t].oldest_key)
            /\ threads' = [threads EXCEPT ![t].pc = "l99"]
            /\ UNCHANGED ret
       ELSE /\ Finish(t, Raised("KeyError", 97))
            /\ UNCHANGED volumeCache
    /\ UNCHANGED <<studyCache, heap, diskVars, succeeded>>

\* line 99: return _volume_cache[cache_key]
ReturnStored(t) ==
    /\ threads[t].pc = "l99"
    /\ IF DictHas(volumeCache, ThreadKey(t))
       THEN Finish(t, Returned(heap, DictGet(volumeCache, ThreadKey(t))))
       ELSE Finish(t, Raised("KeyError", 99))
    /\ UNCHANGED <<studyCache, heap, diskVars, volumeCache, succeeded>>

\* ------------------------------------------------------------ specifications
Init ==
    /\ studyCache = [c \in Cases |-> 0]
    /\ heap = <<>>
    /\ planFiles = <<>>
    /\ niiFiles = <<>>
    /\ seriesDirs = <<>>
    /\ volumeCache = <<>>
    /\ succeeded = <<>>
    /\ threads = [t \in Threads |-> IdleThread(0)]
    /\ ret = [op |-> "init"]

\* request inputs explored for the routes reading the assembled volume
HUCoords == {<<0, 0, 0>>, <<1, 0, 1>>, <<2, 0, 0>>, <<3, 0, 0>>, <<0, 1, 0>>, <<0, 0, 2>>}
MprInputs == {<<"axial", 0>>, <<"axial", 3>>, <<"sagittal", 0>>, <<"sagittal", 1>>,
              <<"coronal", 1>>, <<"coronal", 2>>}

\* slice_index query values: in range, below 0, at and above the slice count
SliceInputs == {0, 1, -1, 2, 3, -4}

\* Study Cache and the routes that read the assembled volume
NextStudy ==
    \/ \E c \in Cases : GetStudy(c)
    \/ \E c \in Cases : ClearStudy(c)
    \/ \E c \in Cases, t \in ScoutTypes : GetScout(c, t)
    \/ \E c \in Cases, q \in HUCoords : GetHU(c, q[1], q[2], q[3])
    \/ \E c \in Cases, m \in MprInputs : MprSlice(c, m[1], m[2])
    \/ \E c \in Cases : MprMetadata(c)
    \/ \E c \in Cases, i \in SliceInputs :
          GetSingleSlice(c, i, FALSE, None, NoOverride, NoOverride)
    \/ \E c \in Cases : GetCine(c, FALSE, None, NoOverride, NoOverride)

SpecStudy == Init /\ [][NextStudy]_vars

\* request inputs explored for the orchestrator
Recon1 == ReconId(1, KernelSoft)
Recon2 == ReconId(2, KernelSoft)
ReconInputs == {None, NoneText, Recon1, Recon2}
PlanInputs == {<<0, 1, 2>>, <<1, 2, 2>>, <<0, 0, 0>>}
SliceFailPoints == {NoFail, FailNii} \cup {<<"slice", k>> : k \in 0..2}

\* plan saves, reconstructions and volume resolutions for one case
NextResolve ==
    \/ \E q \in PlanInputs, fov \in FovInputs : SavePlanning(CaseAB, q[1], q[2], q[3], fov)
    \/ \E up \in BOOLEAN, r \in ReconInputs : Resolve(CaseAB, up, r)
    \/ \E f \in {NoFail, <<"slice", 0>>} :
          ApplyReconstruction(CaseAB, 1, KernelSoft, FALSE, <<>>, f)
    \/ \E i \in {0, 3}, up \in BOOLEAN, r \in {None, Recon1} : ViewerSlice(CaseAB, i, up, r)

SpecResolve == Init /\ [][NextResolve]_vars

\* window overrides on the slice and cine routes
CenterInputs == {NoOverride, <<0>>, <<80>>}
WidthInputs == {NoOverride, <<200>>, <<0>>}

NextWindow ==
    \/ \E c \in {CaseAB, CaseA_B}, up \in BOOLEAN, wc \in CenterInputs, ww \in WidthInputs :
          GetSingleSlice(c, 0, up, None, wc, ww)
    \/ \E c \in {CaseAB, CaseA_B}, up \in BOOLEAN, wc \in CenterInputs, ww \in WidthInputs :
          GetCine(c, up, None, wc, ww)

SpecWindow == Init /\ [][NextWindow]_vars

\* reconstructions and plan saves on one case
Thicknesses == {1, 2}
PixelRows == 0..MaxPixel
OverridePlan ==
    [z_start_mm |-> <<1, 1>>, z_end_mm |-> <<2, 1>>, slice_start |-> 1, slice_end |-> 2,
     fov |-> [x_min |-> 0, x_max |-> 1, y_min |-> 0, y_max |-> 0]]

\* a "planning" object of the request body whose slice_start is below 0
NegativeStartPlan ==
    [z_start_mm |-> <<0, 1>>, z_end_mm |-> <<2, 1>>, slice_start |-> -1, slice_end |-> 2,
     fov |-> [x_min |-> 0, x_max |-> 1, y_min |-> 0, y_max |-> 0]]

NextRecon ==
    \/ \E p0 \in PixelRows, p1 \in PixelRows, fov \in FovInputs :
          SavePlanning(CaseAB, p0, p1, MaxPixel, fov)
    \/ \E t \in Thicknesses, up \in BOOLEAN,
          pl \in {<<>>, <<OverridePlan>>, <<NegativeStartPlan>>},
          f \in SliceFailPoints :
          ApplyReconstruction(CaseAB, t, KernelSoft, up, pl, f)

SpecRecon == Init /\ [][NextRecon]_vars

\* concurrent resolutions of raw volumes of the two stored cases and of a
\* case with no directory
ConcInputs == {<<CaseAB, TRUE>>, <<CaseAB, FALSE>>, <<CaseA_B, TRUE>>,
               <<CaseA_B, FALSE>>, <<CaseMissing, FALSE>>}

NextConc ==
    \E t \in Threads :
        \/ \E i \in ConcInputs : Call(t, i[1], i[2], None)
        \/ CheckCached(t)
        \/ ReturnCached(t)
        \/ LoadVolume(t)
        \/ StoreEntry(t)
        \/ CheckSize(t)
        \/ PickOldest(t)
        \/ DeleteOldest(t)
        \/ ReturnStored(t)

SpecConc == Init /\ [][NextConc]_vars

\* The service started over a PLANNING_ROOT that holds a derived series from
\* an earlier apply_reconstruction: the caches are empty, the files are there.
InitPersisted ==
    /\ studyCache = [c \in Cases |-> 0]
    /\ heap = <<>>
    /\ planFiles = <<>>
    /\ \E image \in {reconstruct(CaseAB, 1, KernelSoft, FALSE, <<>>)} :
          /\ niiFiles = Put(<<>>, <<SafeCaseId(CaseAB), Recon1>>, image)
          /\ seriesDirs = Put(<<>>, <<SafeCaseId(CaseAB), Recon1>>,
                              WriteSlices(<<>>, image, image.depth))
    /\ volumeCache = <<>>
    /\ succeeded = <<>>
    /\ threads = [t \in Threads |-> IdleThread(0)]
    /\ ret = [op |-> "init"]

\* concurrent resolutions under five cache keys, two of them of the series
PersistedInputs == {<<CaseAB, FALSE, None>>, <<CaseAB, TRUE, None>>, <<CaseA_B, FALSE, None>>,
                    <<CaseAB, FALSE, Recon1>>, <<CaseAB, TRUE, Recon1>>}

NextPersisted ==
    \E t \in Threads :
        \/ \E i \in PersistedInputs : Call(t, i[1], i[2], i[3])
        \/ CheckCached(t)
        \/ ReturnCached(t)
        \/ LoadVolume(t)
        \/ StoreEntry(t)
        \/ CheckSize(t)
        \/ PickOldest(t)
        \/ DeleteOldest(t)
        \/ ReturnStored(t)

SpecPersisted == InitPersisted /\ [][NextPersisted]_vars

\* plans saved and retrieved for the case ids that share a flat file name
NextPlan ==
    \/ \E c \in Cases, p0 \in PixelRows, p1 \in PixelRows, h \in PixelRows,
          fov \in FovInputs :
          SavePlanning(c, p0, p1, h, fov)
    \/ \E c \in Cases : GetPlanning(c)

SpecPlan == Init /\ [][NextPlan]_vars

\* ------------------------------------------------- the assembler on its own
\* Files a case directory may hold: two slices at the same z, slices with
\* different rescale tags or none, with and without SliceThickness, and a
\* file pydicom cannot read.
PoolFile(name, z, px, hasSlope, slope, hasIntercept, intercept, hasThickness, ok) ==
    [name |-> name, z |-> z, px |-> << <<px>> >>,
     hasSlope |-> hasSlope, slope |-> slope,
     hasIntercept |-> hasIntercept, intercept |-> intercept,
     hasThickness |-> hasThickness,
     hasWC |-> FALSE, wc |-> 0, hasWW |-> FALSE, ww |-> 0, ok |-> ok]

FilePool ==
    { PoolFile("IM1.dcm", 0, 10, FALSE, 0, FALSE, 0, TRUE, TRUE),
      PoolFile("IM2.dcm", 0, 20, TRUE, 2, TRUE, -1000, FALSE, TRUE),
      PoolFile("IM3.dcm", 1, 30, TRUE, 1, TRUE, -1000, TRUE, TRUE),
      PoolFile("IM4.dcm", 2, 40, TRUE, 1, TRUE, -1024, FALSE, TRUE),
      PoolFile("IM5.dcm", 0, 0, FALSE, 0, FALSE, 0, FALSE, FALSE) }

\* os.listdir: any order of any MaxFiles of them
Listings ==
    UNION { { q \in [1..n -> FilePool] :
                \A i \in 1..n, j \in 1..n : i # j => q[i] # q[j] } : n \in 0..MaxFiles }

Directories ==
    {[op |-> "listdir", exists |-> FALSE, files |-> <<>>]}
        \cup {[op |-> "listdir", exists |-> TRUE, files |-> q] : q \in Listings}

InitAssemble ==
    /\ studyCache = [c \in Cases |-> 0]
    /\ heap = <<>>
    /\ planFiles = <<>>
    /\ niiFiles = <<>>
    /\ seriesDirs = <<>>
    /\ volumeCache = <<>>
    /\ succeeded = <<>>
    /\ threads = [t \in Threads |-> IdleThread(0)]
    /\ ret \in Directories

\* load_dicom_series(case_path) on the directory drawn
LoadSeries ==
    /\ ret.op = "listdir"
    /\ ret' = [op |-> "load_dicom_series", exists |-> ret.exists, files |-> ret.files,
               result |-> load_series(ret.exists, ret.files)]
    /\ UNCHANGED <<studyCache, heap, diskVars, volumeCache, succeeded, threads>>

NextAssemble == LoadSeries

SpecAssemble == InitAssemble /\ [][NextAssemble]_vars

\* ------------------------------------- the cropper and the planning mapper
\* a volume of n slices of one row, each slice different
TestVolume(n) == [k \in 1..n |-> << <<k, -k>> >>]

\* n z-positions step mm apart, ascending and descending
ZUniform(n, step) == [i \in 1..n |-> (i - 1) * step]
ZReversed(n, step) == [i \in 1..n |-> (n - i) * step]
ZLists == {ZUniform(n, 2) : n \in 0..MaxSlices} \cup {ZReversed(n, 2) : n \in 0..MaxSlices}

CropCalls ==
    {[op |-> "call", fn |-> "crop_volume", volume |-> TestVolume(n),
      slice_start |-> s, slice_end |-> e, fov |-> f] :
        n \in 0..MaxSlices, s \in -1..(MaxSlices + 1), e \in -1..(MaxSlices + 1),
        f \in FovInputs \cup {<<>>}}

MapCalls ==
    {[op |-> "call", fn |-> "map_z_mm_to_slice_indices",
      z_start_mm |-> <<a, 1>>, z_end_mm |-> <<b, 1>>, z_positions |-> zs] :
        a \in -1..(2 * MaxSlices - 1), b \in -1..(2 * MaxSlices - 1), zs \in ZLists}

\* the scenario of a 50-slice volume at 0..49 mm planned on a 400 px scout
ScenarioCall ==
    [op |-> "call", fn |-> "generate_planning_geometry",
     z_pixel_start |-> 100, z_pixel_end |-> 200, scout_height_px |-> 400,
     z_positions |-> [i \in 1..50 |-> i - 1]]

PlanCalls ==
    {[op |-> "call", fn |-> "generate_planning_geometry",
      z_pixel_start |-> p0, z_pixel_end |-> p1, scout_height_px |-> h,
      z_positions |-> ZUniform(n, 2)] :
        p0 \in -1..(MaxPixel + 1), p1 \in -1..(MaxPixel + 1), h \in 0..(MaxPixel + 1),
        n \in 0..MaxSlices}
      \cup {ScenarioCall}

InitGeometry ==
    /\ studyCache = [c \in Cases |-> 0]
    /\ heap = <<>>
    /\ planFiles = <<>>
    /\ niiFiles = <<>>
    /\ seriesDirs = <<>>
    /\ volumeCache = <<>>
    /\ succeeded = <<>>
    /\ threads = [t \in Threads |-> IdleThread(0)]
    /\ ret \in CropCalls \cup MapCalls \cup PlanCalls

\* crop_volume(volume, slice_start, slice_end, fov)
CropVolume ==
    /\ ret.op = "call" /\ ret.fn = "crop_volume"
    /\ ret' = [op |-> "crop_volume", volume |-> ret.volume,
               slice_start |-> ret.slice_start, slice_end |-> ret.slice_end,
               fov |-> ret.fov,
               result |-> crop_volume(ret.volume, ret.slice_start, ret.slice_end, ret.fov)]
    /\ UNCHANGED <<studyCache, heap, diskVars, volumeCache, succeeded, threads>>

\* map_z_mm_to_slice_indices(z_start_mm, z_end_mm, z_positions)
MapZ ==
    /\ ret.op = "call" /\ ret.fn = "map_z_mm_to_slice_indices"
    /\ ret' = [op |-> "map_z_mm_to_slice_indices", z_start_mm |-> ret.z_start_mm,
               z_end_mm |-> ret.z_end_mm, z_positions |-> ret.z_positions,
               result |-> map_z_mm_to_slice_indices(ret.z_start_mm, ret.z_end_mm,
                                                    ret.z_positions)]
    /\ UNCHANGED <<studyCache, heap, diskVars, volumeCache, succeeded, threads>>

\* generate_planning_geometry(z_pixel_start, z_pixel_end, scout_height_px, z_positions)
PlanGeometry ==
    /\ ret.op = "call" /\ ret.fn = "generate_planning_geometry"
    /\ ret' = [op |-> "generate_planning_geometry", z_pixel_start |-> ret.z_pixel_start,
               z_pixel_end |-> ret.z_pixel_end, scout_height_px |-> ret.scout_height_px,
               z_positions |-> ret.z_positions,
               result |-> generate_planning_geometry(ret.z_pixel_start, ret.z_pixel_end,
                                                     ret.scout_height_px, ret.z_positions)]
    /\ UNCHANGED <<studyCache, heap, diskVars, volumeCache, succeeded, threads>>

NextGeometry == CropVolume \/ MapZ \/ PlanGeometry

SpecGeometry == InitGeometry /\ [][NextGeometry]_vars

\* ------------------------------------------------- binary floating point
\* Python floats are IEEE doubles (53-bit significands) and numpy float32
\* values have 24-bit significands.  A natural number too wide for a machine
\* integer is a sequence of base-32768 digits, least significant first; a
\* float is [s |-> 1 or -1, m |-> the digits of a natural, e |-> exponent],
\* of value s * m * 2^e.

\* the digits of a non-negative integer below 2^31
BigOf(n) ==
    IF n = 0 THEN <<>>
    ELSE IF n < 32768 THEN <<n>>
    ELSE <<n % 32768, n \div 32768>>

\* the number of bits of a natural (0 for zero)
BitLen(a) ==
    IF \A i \in 1..Len(a) : a[i] = 0 THEN 0
    ELSE LET top == CHOOSE j \in 1..Len(a) :
                        a[j] # 0 /\ \A k \in (j + 1)..Len(a) : a[k] = 0
         IN  15 * (top - 1)
               + (CHOOSE k \in 1..15 : a[top] \div 2^k = 0 /\ a[top] \div 2^(k - 1) # 0)

\* a * d + b + c for naturals a, b and machine integers 0 <= d, c < 32768
RECURSIVE MulAdd(_, _, _, _)
MulAdd(a, d, b, c) ==
    IF a = <<>> /\ b = <<>> THEN (IF c = 0 THEN <<>> ELSE <<c>>)
    ELSE LET t == (IF a = <<>> THEN 0 ELSE a[1] * d) + (IF b = <<>> THEN 0 ELSE b[1]) + c
         IN  <<t % 32768>> \o MulAdd(IF a = <<>> THEN <<>> ELSE Tail(a), d,
                                     IF b = <<>> THEN <<>> ELSE Tail(b), t \div 32768)

\* a * 2^k
Shl(a, k) == [i \in 1..(k \div 15) |-> 0] \o MulAdd(a, 2^(k % 15), <<>>, 0)

\* a < b
BigLess(a, b) ==
    \E i \in 1..Len(b) :
        /\ (IF i <= Len(a) THEN a[i] ELSE 0) < b[i]
        /\ \A j \in (i + 1)..(IF Len(a) > Len(b) THEN Len(a) ELSE Len(b)) :
              (IF j <= Len(a) THEN a[j] ELSE 0) = (IF j <= Len(b) THEN b[j] ELSE 0)

\* a - b for a >= b, in the digits of a
BigSub(a, b) ==
    SubSeq(MulAdd(a, 1, [i \in 1..Len(a) |-> 32767 - (IF i <= Len(b) THEN b[i] ELSE 0)], 1),
           1, Len(a))

\* long division of a by b > 0: from the state st = [q, r] reached on the bits
\* of a above hi, the quotient and remainder after the bits hi-1 .. lo
RECURSIVE BigDivMod(_, _, _, _, _)
BigDivMod(a, b, st, hi, lo) ==
    IF hi <= lo THEN st
    ELSE IF hi = lo + 1
    THEN CHOOSE x \in
           {IF BigLess(r2, b)
            THEN [q |-> MulAdd(st.q, 2, <<>>, 0), r |-> r2]
            ELSE [q |-> MulAdd(st.q, 2, <<>>, 1), r |-> BigSub(r2, b)] :
               r2 \in {MulAdd(st.r, 2, <<>>, (a[lo \div 15 + 1] \div 2^(lo % 15)) % 2)}} : TRUE
    ELSE CHOOSE x \in
           {BigDivMod(a, b, up, (hi + lo) \div 2, lo) :
               up \in {BigDivMod(a, b, st, hi, (hi + lo) \div 2)}} : TRUE

\* s * (A / B) * 2^e rounded to a p-bit significand, ties to even
Fl(p, s, A, B, e) ==
    IF BitLen(A) = 0 THEN [s |-> 1, m |-> <<>>, e |-> 0]
    ELSE CHOOSE x \in
           {CHOOSE y \in
              {[s |-> s,
                m |-> IF \/ BigLess(Shl(B, IF k < 0 THEN -k ELSE 0), MulAdd(d.r, 2, <<>>, 0))
                         \/ /\ ~BigLess(MulAdd(d.r, 2, <<>>, 0), Shl(B, IF k < 0 THEN -k ELSE 0))
                            /\ d.q[1] % 2 = 1
                      THEN MulAdd(d.q, 1, <<>>, 1)
                      ELSE d.q,
                e |-> e - k] :
                  d \in {BigDivMod(Shl(A, IF k > 0 THEN k ELSE 0),
                                   Shl(B, IF k < 0 THEN -k ELSE 0),
                                   [q |-> <<>>, r |-> <<>>],
                                   15 * Len(Shl(A, IF k > 0 THEN k ELSE 0)), 0)}} : TRUE :
                k \in {p - 1 - (IF BigLess(Shl(A, IF BitLen(B) > BitLen(A)
                                                  THEN BitLen(B) - BitLen(A) ELSE 0),
                                           Shl(B, IF BitLen(A) > BitLen(B)
                                                  THEN BitLen(A) - BitLen(B) ELSE 0))
                                THEN BitLen(A) - BitLen(B) - 1
                                ELSE BitLen(A) - BitLen(B))}} : TRUE

\* x + y rounded to p bits
FlAdd(p, x, y) ==
    CHOOSE z \in
      {IF x.s = y.s
       THEN Fl(p, x.s, MulAdd(Shl(x.m, x.e - lo), 1, Shl(y.m, y.e - lo), 0), <<1>>, lo)
       ELSE IF BigLess(Shl(x.m, x.e - lo), Shl(y.m, y.e - lo))
       THEN Fl(p, y.s, BigSub(Shl(y.m, y.e - lo), Shl(x.m, x.e - lo)), <<1>>, lo)
       ELSE Fl(p, x.s, BigSub(Shl(x.m, x.e - lo), Shl(y.m, y.e - lo)), <<1>>, lo) :
          lo \in {IF x.m = <<>> THEN y.e ELSE IF y.m = <<>> THEN x.e
                  ELSE IF x.e < y.e THEN x.e ELSE y.e}} : TRUE

\* int(x) and astype(uint8) of a float 0 <= x < 32768: the integer part
Trunc(x) ==
    CHOOSE n \in
      {IF q = <<>> THEN 0 ELSE q[1] :
          q \in {IF x.e >= 0 THEN Shl(x.m, x.e)
                 ELSE BigDivMod(x.m, Shl(<<1>>, -x.e), [q |-> <<>>, r |-> <<>>],
                                15 * Len(x.m), 0).q}} : TRUE

\* ----------------------------------------- rendering and resampling calls
\* resample_slice_thickness lines 77-84: the size passed to sitk.Resample.
\* size is (columns, rows, slices); the spacings and new_thickness are the
\* doubles nearest the decimals <<num, den>>
resample_slice_thickness(size, spacing, new_thickness) ==
    [i \in 1..3 |->
        CHOOSE n \in
          {Trunc(Fl(53, 1, prod.m, t.m, prod.e - t.e)) :
              prod \in {Fl(53, 1, MulAdd(s.m, size[i], <<>>, 0), <<1>>, s.e) :
                           s \in {Fl(53, 1, BigOf(spacing[i][1]), BigOf(spacing[i][2]), 0)}},
              t \in {IF i = 3
                     THEN Fl(53, 1, BigOf(new_thickness[1]), BigOf(new_thickness[2]), 0)
                     ELSE Fl(53, 1, BigOf(spacing[i][1]), BigOf(spacing[i][2]), 0)}} : TRUE]

\* apply_window in the arithmetic numpy performs, on one float32 voxel of
\* integer value v: lower and upper are Python doubles, the clip, the
\* subtraction, the division and the scaling are float32 operations and
\* astype(np.uint8) truncates.  center and width are the doubles nearest the
\* decimals <<num, den>>; the result is the 8-bit value (width > 0)
apply_window_f32(v, center, width) ==
    LET Neg(x) == [x EXCEPT !.s = -x.s]
        Less(x, y) == FlAdd(64, x, Neg(y)).s = -1
        F32(x) == Fl(24, x.s, x.m, <<1>>, x.e)
    IN  CHOOSE o1 \in
          {(CHOOSE o2 \in
              {(CHOOSE o3 \in
                  {(CHOOSE o4 \in
                      {(CHOOSE o5 \in
                          {Trunc(Fl(24, 1, MulAdd(ratio.m, 255, <<>>, 0), <<1>>, ratio.e)) :
                              ratio \in {Fl(24, 1, num.m, den.m, num.e - den.e) :
                                         num \in {FlAdd(24, windowed, Neg(lo32))}}} : TRUE) :
                         windowed \in {IF Less(v32, lo32) THEN lo32
                                       ELSE IF Less(up32, v32) THEN up32 ELSE v32}} : TRUE) :
                     lo32 \in {F32(lower)}, up32 \in {F32(upper)},
                     den \in {F32(FlAdd(53, upper, Neg(lower)))},
                     v32 \in {Fl(24, IF v < 0 THEN -1 ELSE 1, BigOf(Abs(v)), <<1>>, 0)}} : TRUE) :
                 lower \in {FlAdd(53, c, Neg(half))}, upper \in {FlAdd(53, c, half)}} : TRUE) :
             c \in {Fl(53, IF center[1] < 0 THEN -1 ELSE 1,
                       BigOf(Abs(center[1])), BigOf(center[2]), 0)},
             half \in {[w EXCEPT !.e = w.e - 1] :
                          w \in {Fl(53, 1, BigOf(width[1]), BigOf(width[2]), 0)}}} : TRUE

\* generate_stl: vtkFlyingEdges3D puts one point on every voxel edge whose
\* ends lie on different sides of the threshold.  The checks and the writes
\* are inside one try whose handler re-raises every exception as RuntimeError
\* (lines 147-237); cause is the exception the handler caught.  fails: a
\* collaborator raises while the mesh is written, after the temporary file was
\* created and tracked.
generate_stl(volume, hu, name, fails, temp_files) ==
    LET voxels == (1..Len(volume)) \X (1..Len(volume[1])) \X (1..Len(volume[1][1]))
        inside(p) == volume[p[1]][p[2]][p[3]] >= hu
        points == Cardinality({e \in voxels \X voxels :
                      /\ e[2] \in {<<e[1][1] + 1, e[1][2], e[1][3]>>,
                                   <<e[1][1], e[1][2] + 1, e[1][3]>>,
                                   <<e[1][1], e[1][2], e[1][3] + 1>>}
                      /\ inside(e[1]) # inside(e[2])})
        tmp == <<"tmp", Cardinality(temp_files), name>>
    IN  IF points = 0
        THEN [ok |-> FALSE, error |-> "RuntimeError", cause |-> "ValueError",
              temp_files |-> temp_files]
        ELSE IF fails
        THEN [ok |-> FALSE, error |-> "RuntimeError", cause |-> "Exception",
              temp_files |-> temp_files \cup {tmp}]
        ELSE [ok |-> TRUE, path |-> tmp, temp_files |-> temp_files \cup {tmp}]

InitRender ==
    /\ studyCache = [c \in Cases |-> 0]
    /\ heap = <<>>
    /\ planFiles = <<>>
    /\ niiFiles = <<>>
    /\ seriesDirs = <<>>
    /\ volumeCache = <<>>
    /\ succeeded = <<>>
    /\ threads = [t \in Threads |-> IdleThread(0)]
    /\ ret \in
         {[op |-> "call", fn |-> "resample_slice_thickness",
           size |-> <<n, n, z>>, spacing |-> <<p, p, d>>, new_thickness |-> t] :
             n \in {1, 2, 3, 4, 384, 512}, z \in {1, 3, 40},
             p \in {<<1, 1>>, <<7, 10>>}, d \in {<<1, 1>>, <<7, 10>>},
             t \in {<<1, 1>>, <<5, 1>>, <<7, 10>>, <<1, 2>>}}
         \cup
         {[op |-> "call", fn |-> "apply_window", v |-> v, center |-> c, width |-> w] :
             v \in {-3000, -275, -200, 0, 48, 49, 128, 129, 3000},
             c \in {<<-1998, 10>>, <<884, 10>>, <<40, 1>>, <<0, 1>>},
             w \in {<<80, 1>>, <<150, 1>>, <<400, 1>>, <<0, 1>>, <<-5, 1>>}}
         \cup
         {[op |-> "call", fn |-> "generate_stl", volume |-> vol, hu |-> hu,
           name |-> "bone", fails |-> f, temp_files |-> tf] :
             vol \in [1..2 -> [1..2 -> [1..2 -> {-1000, 300}]]],
             hu \in {200, -100}, f \in BOOLEAN,
             tf \in {{}, {<<"tmp", 0, "skin">>}}}
         \cup
         {[op |-> "call", fn |-> "generate_mpr_slice",
           volume |-> [z \in 1..sh[1] |-> [y \in 1..sh[2] |-> [x \in 1..sh[3] |->
                          100 * z + 10 * y + x]]],
           orientation |-> o, slice_index |-> i,
           window_center |-> DefaultWC, window_width |-> w] :
             sh \in (1..MaxSlices) \X (1..MaxSlices) \X (1..MaxSlices),
             o \in Orientations \cup {"oblique"}, i \in -1..MaxSlices,
             w \in {DefaultWW, 0}}
         \cup
         {[op |-> "call", fn |-> "get_mpr_metadata",
           volume |-> [z \in 1..sh[1] |-> [y \in 1..sh[2] |-> [x \in 1..sh[3] |->
                          100 * z + 10 * y + x]]]] :
             sh \in (1..MaxSlices) \X (1..MaxSlices) \X (1..MaxSlices)}

\* resample_slice_thickness(image, new_thickness), then save_as_dicom_series
\* on the result: one file IM_<z> for each z in range(depth)
ResampleSliceThickness ==
    /\ ret.op = "call" /\ ret.fn = "resample_slice_thickness"
    /\ \E new_size \in {resample_slice_thickness(ret.size, ret.spacing, ret.new_thickness)} :
          ret' = [op |-> "resample_slice_thickness", size |-> ret.size,
                  spacing |-> ret.spacing, new_thickness |-> ret.new_thickness,
                  new_size |-> new_size,
                  files |-> [k \in 1..new_size[3] |-> k - 1]]
    /\ UNCHANGED <<studyCache, heap, diskVars, volumeCache, succeeded, threads>>

\* apply_window(image, center, width) on an image of one voxel
ApplyWindow ==
    /\ ret.op = "call" /\ ret.fn = "apply_window"
    /\ ret' = [op |-> "apply_window", v |-> ret.v, center |-> ret.center,
               width |-> ret.width,
               result |-> IF ret.width[1] <= 0
                          THEN [ok |-> FALSE, error |-> "ValueError"]
                          ELSE [ok |-> TRUE,
                                value |-> apply_window_f32(ret.v, ret.center, ret.width)]]
    /\ UNCHANGED <<studyCache, heap, diskVars, volumeCache, succeeded, threads>>

\* generate_stl(vtk_image, hu, name) called by generate_bone_stl, whose
\* handlers answer 400 to ValueError and 500 to RuntimeError
GenerateStl ==
    /\ ret.op = "call" /\ ret.fn = "generate_stl"
    /\ \E r \in {generate_stl(ret.volume, ret.hu, ret.name, ret.fails, ret.temp_files)} :
          ret' = [op |-> "generate_stl", volume |-> ret.volume, hu |-> ret.hu,
                  tracked_before |-> ret.temp_files, result |-> r,
                  status |-> IF r.ok THEN 200
                             ELSE IF r.error = "ValueError" THEN 400 ELSE 500]
    /\ UNCHANGED <<studyCache, heap, diskVars, volumeCache, succeeded, threads>>

\* generate_mpr_slice(volume, orientation, slice_index, window_center,
\* window_width): the slice is taken, then apply_window raises ValueError on
\* a width <= 0
GenerateMprSlice ==
    /\ ret.op = "call" /\ ret.fn = "generate_mpr_slice"
    /\ \E m \in {mpr_slice(ret.volume, ret.orientation, ret.slice_index)} :
          ret' = [op |-> "generate_mpr_slice", volume |-> ret.volume,
                  orientation |-> ret.orientation, slice_index |-> ret.slice_index,
                  window_center |-> ret.window_center, window_width |-> ret.window_width,
                  result |-> IF ~m.ok \/ ret.window_width <= 0
                             THEN [ok |-> FALSE, error |-> "ValueError"]
                             ELSE [ok |-> TRUE,
                                   image |-> generate_single_frame(m.img, "view",
                                                ret.window_center, ret.window_width)]]
    /\ UNCHANGED <<studyCache, heap, diskVars, volumeCache, succeeded, threads>>

\* get_mpr_metadata(volume) on a 3D volume
GetMprMetadata ==
    /\ ret.op = "call" /\ ret.fn = "get_mpr_metadata"
    /\ ret' = [op |-> "get_mpr_metadata", volume |-> ret.volume,
               result |-> [axial_slices |-> Len(ret.volume),
                           sagittal_slices |-> Len(ret.volume[1]),
                           coronal_slices |-> Len(ret.volume[1][1]),
                           volume_shape |-> <<Len(ret.volume), Len(ret.volume[1]),
                                              Len(ret.volume[1][1])>>]]
    /\ UNCHANGED <<studyCache, heap, diskVars, volumeCache, succeeded, threads>>

NextRender ==
    \/ ResampleSliceThickness
    \/ ApplyWindow
    \/ GenerateStl
    \/ GenerateMprSlice
    \/ GetMprMetadata

SpecRender == InitRender /\ [][NextRender]_vars

\* ============================================================ Study Cache

\* C8: get_study runs the assembler exactly when the case is absent from the
\* Study Cache; otherwise it returns the instance already cached and changes
\* nothing; a load that succeeds caches a fresh instance; clear_study(c)
\* removes case c and no other case.
C8_StudyCacheContract ==
    [][/\ ret'.op = "get_study" =>
            /\ ret'.loaded <=> (studyCache[ret'.case] = 0)
            /\ studyCache[ret'.case] # 0 =>
                  /\ ret'.ok
                  /\ ret'.ref = studyCache[ret'.case]
                  /\ studyCache' = studyCache
                  /\ heap' = heap
            /\ (ret'.loaded /\ ret'.ok) =>
                  /\ ret'.ref \notin 1..Len(heap)
                  /\ studyCache' = [studyCache EXCEPT ![ret'.case] = ret'.ref]
                  /\ heap'[ret'.ref].case = ret'.case
            /\ (ret'.loaded /\ ~ret'.ok) => studyCache' = studyCache
       /\ ret'.op = "clear_study" =>
            /\ studyCache'[ret'.case] = 0
            /\ \A d \in Cases \ {ret'.case} : studyCache'[d] = studyCache[d]
      ]_vars

\* a case was loaded, cleared, loaded again, and then served from the cache
C8_Witness ==
    /\ ret.op = "get_study" /\ ret.ok /\ ~ret.loaded
    /\ Len(heap) = 2 /\ heap[1].case = heap[2].case
    /\ ret.ref = 2

\* C2: the volume held in the Study Cache equals the assembled volume, and
\* get_hu_value returns the assembled HU value of the voxel asked for.
C2_StudyVolumeIsAssembled ==
    /\ \A c \in Cases :
          studyCache[c] # 0 => heap[studyCache[c]].volume = load_dicom_series(c).volume
    /\ (ret.op = "get_hu_value" /\ ret.status = 200) =>
          ret.hu_value = load_dicom_series(ret.case).volume
                            [ret.slice_index + 1][ret.pixel_y + 1][ret.pixel_x + 1]

\* ============================================================ orchestrator

\* C1: a resolution with no reconstruction id and use_planning = true returns
\* the raw volume cropped to the plan persisted at the time of the request,
\* and the raw volume unmodified only if no plan is persisted.
C1_PlannedResolutionIsCurrent ==
    (/\ ret.op = "get_cached_volume" /\ ret.status = 200
     /\ ret.recon_id = None /\ ret.use_planning) =>
        LET raw == load_dicom_series(ret.case).volume
        IN  IF ~PlanExists(ret.case) THEN ret.volume = raw
            ELSE LET plan == planFiles[SafeCaseId(ret.case)]
                     c == crop_volume_z(Len(raw), plan.slice_start, plan.slice_end)
                 IN  c.ok /\ ret.volume = SubSeq(raw, c.first + 1, c.last + 1)

\* C5: get_cached_volume returns only an entry that was stored for the
\* (case, use_planning, reconstruction_id) tuple of the request.
C5_EntryBelongsToRequest ==
    (ret.op = "get_cached_volume" /\ ret.status = 200) =>
        ret.owner = <<ret.case, ret.use_planning, ret.recon_id>>

\* C6: the cache never holds more than 3 entries, and a completed resolution
\* that found or stored its entry returns it and leaves it in the cache.
C6_CacheBoundedKeepsNewest ==
    /\ Len(volumeCache) <= CacheCapacity
    /\ (ret.op = "get_cached_volume" /\ (ret.hit \/ ret.stored)) =>
          /\ ret.status = 200
          /\ DictHas(volumeCache, cache_key(ret.case, ret.use_planning, ret.recon_id))

\* a resolution that stored a fourth entry and evicted one
C6_Witness ==
    /\ ret.op = "get_cached_volume" /\ ret.status = 200
    /\ ret.stored /\ ret.evicted
    /\ Len(volumeCache) = CacheCapacity

\* C9: with a reconstruction id the outcome is decided by the derived series
\* alone: NotFound and no new cache entry when the directory is absent or
\* holds no slice file, otherwise the stacked series (whatever use_planning
\* and the persisted plan are).
C9_ReconResolutionReadsSeries ==
    (ret.op = "get_cached_volume" /\ Truthy(ret.recon_id)) =>
        IF ~ReconDirExists(ret.case, ret.recon_id)
        THEN ret.status = 404 /\ ~ret.stored
        ELSE IF Len(ReconFiles(ret.case, ret.recon_id)) = 0
        THEN ret.status = 404 /\ ~ret.stored
        ELSE /\ ret.status = 200
             /\ ret.volume = [i \in 1..Len(ReconFiles(ret.case, ret.recon_id)) |->
                                ReconFiles(ret.case, ret.recon_id)[i].px]

\* C10: the rendering window is the override when one is supplied and the
\* resolved entry's value otherwise, separately for center and width; the
\* request leaves the window stored in every cache entry as it was, and a
\* stored window of a case is the one of its series metadata.
C10_WindowOverride ==
    [][ret'.op \in {"get_single_slice", "get_cine"} =>
          /\ ret'.status = 200 =>
                LET k == cache_key(ret'.case, ret'.use_planning, ret'.recon_id)
                IN  /\ DictHas(volumeCache', k)
                    /\ ret'.final_wc = IF ret'.window_center # NoOverride
                                       THEN ret'.window_center[1]
                                       ELSE DictGet(volumeCache', k).wc
                    /\ ret'.final_ww = IF ret'.window_width # NoOverride
                                       THEN ret'.window_width[1]
                                       ELSE DictGet(volumeCache', k).ww
          /\ \A i \in 1..Len(volumeCache), j \in 1..Len(volumeCache') :
                volumeCache[i].key = volumeCache'[j].key =>
                    /\ volumeCache'[j].val.wc = volumeCache[i].val.wc
                    /\ volumeCache'[j].val.ww = volumeCache[i].val.ww
          /\ \A j \in 1..Len(volumeCache') :
                LET meta == WindowOf(load_dicom_series(volumeCache'[j].val.owner[1]).datasets)
                IN  /\ volumeCache'[j].val.wc = meta.center
                    /\ volumeCache'[j].val.ww = meta.width
      ]_vars

\* a center override of 0 is used, with the stored width beside it
C10_Witness ==
    /\ ret.op = "get_single_slice" /\ ret.status = 200
    /\ ret.window_center = <<0>> /\ ret.window_width = NoOverride
    /\ ret.final_wc = 0 /\ ret.final_ww = 350

\* ========================================================== reconstruction

\* C3: once a call with a (slice thickness, kernel) pair has returned a
\* descriptor, every later call with that pair returns the same recon_id,
\* volume path and series URL, runs no pipeline and leaves the stored
\* artifact as it is.
C3_ReconstructionIdempotent ==
    [][(/\ ret'.op = "apply_reconstruction"
        /\ <<ret'.case, ret'.thickness, ret'.kernel>> \in DOMAIN succeeded) =>
          LET first == succeeded[<<ret'.case, ret'.thickness, ret'.kernel>>]
          IN  /\ ret'.status = 200
              /\ ~ret'.ran
              /\ ret'.desc.recon_id = first.recon_id
              /\ ret'.desc.volume_url = first.volume_url
              /\ ret'.desc.dicom_series_url = first.dicom_series_url
              /\ niiFiles' = niiFiles
              /\ seriesDirs' = seriesDirs
      ]_vars

\* a repeated call served from the artifact although the persisted plan is
\* no longer the one the artifact was built from
C3_Witness ==
    /\ ret.op = "apply_reconstruction" /\ ret.status = 200 /\ ~ret.ran
    /\ ret.desc.used_planning
    /\ PlanExists(ret.case)
    /\ <<ret.case, ret.thickness, ret.kernel>> \in DOMAIN succeeded
    /\ LET image == niiFiles[<<SafeCaseId(ret.case), ret.desc.recon_id>>]
       IN  image.first # planFiles[SafeCaseId(ret.case)].slice_start

\* C4: whenever apply_reconstruction returns a descriptor, the derived series
\* directory exists and holds one slice file for every slice of the derived
\* volume.
C4_DescriptorHasFullSeries ==
    (ret.op = "apply_reconstruction" /\ ret.status = 200) =>
        LET dir == <<SafeCaseId(ret.case), ret.desc.recon_id>>
        IN  /\ dir \in DOMAIN niiFiles
            /\ dir \in DOMAIN seriesDirs
            /\ Len(seriesDirs[dir]) = niiFiles[dir].depth
            /\ Len(seriesDirs[dir]) > 0

\* ============================================== concurrent resolutions

\* C7: under any interleaving of concurrent get_cached_volume calls, a call
\* that succeeds when run alone succeeds and returns the entry holding the
\* volume of its own key.
C7_ConcurrentCallsSucceed ==
    (ret.op = "get_cached_volume" /\ ret.recon_id = None) =>
        \A s \in {get_study(studyCache, heap, ret.case)} :
        \A l \in {load_entry(s, ret.case, ret.use_planning, ret.recon_id)} :
            l.ok => /\ ret.status = 200
                    /\ ret.owner = <<ret.case, ret.use_planning, ret.recon_id>>
                    /\ ret.volume = Materialise(s.heap, l.entry.volume)

\* ================================================================ assembler

\* the files of a listing in the order p enumerates them
Reordered(files, p) == [i \in 1..Len(files) |-> files[p[i]]]

\* the bijections of 1..n
Orders(n) == {p \in [1..n -> 1..n] : \A i \in 1..n, j \in 1..n : i # j => p[i] # p[j]}

\* C13: for every set of decodable slice files, every enumeration order gives
\* the same assembled volume, the same z-position list and the same per-slice
\* record order.
C13_AssemblyOrderIndependent ==
    (ret.op = "load_dicom_series" /\ ret.result.ok) =>
        \A p \in Orders(Len(ret.files)) :
        \A other \in {load_series(ret.exists, Reordered(ret.files, p))} :
            /\ other.ok
            /\ other.volume = ret.result.volume
            /\ other.z_positions = ret.result.z_positions
            /\ other.datasets = ret.result.datasets

\* the decodable files of the directory have pairwise distinct z-positions
DistinctZ(files) ==
    \A i \in 1..Len(files), j \in 1..Len(files) :
        (i # j /\ files[i].ok /\ files[j].ok) => files[i].z # files[j].z

\* C13 as amended: for every set of decodable slice files with pairwise
\* distinct z-positions (whatever their rescale tags), every enumeration
\* order gives the same volume, z-position list and per-slice record order.
C13_OrderIndependentDistinctZ ==
    (ret.op = "load_dicom_series" /\ ret.result.ok /\ DistinctZ(ret.files)) =>
        \A p \in Orders(Len(ret.files)) :
        \A other \in {load_series(ret.exists, Reordered(ret.files, p))} :
            /\ other.ok
            /\ other.volume = ret.result.volume
            /\ other.z_positions = ret.result.z_positions
            /\ other.datasets = ret.result.datasets

\* three slices at distinct z, with different rescale tags, listed out of
\* z order
C13_Witness ==
    /\ ret.op = "load_dicom_series" /\ ret.result.ok
    /\ DistinctZ(ret.files)
    /\ Len(ret.files) = 3 /\ \A i \in 1..3 : ret.files[i].ok
    /\ ret.files[1].z > ret.files[2].z
    /\ ret.files[1].slope # ret.files[2].slope

\* C14: slice i of the assembled volume is pixel_data_i * slope_i + intercept_i
\* with the rescale tags of slice i itself (1 and 0 when absent).
C14_PerSliceRescale ==
    (ret.op = "load_dicom_series" /\ ret.result.ok) =>
        \A i \in 1..Len(ret.result.volume) :
            ret.result.volume[i] =
                [y \in 1..Len(ret.result.datasets[i].px) |->
                   [x \in 1..Len(ret.result.datasets[i].px[y]) |->
                      ret.result.datasets[i].px[y][x]
                         * (IF ret.result.datasets[i].hasSlope
                            THEN ret.result.datasets[i].slope ELSE 1)
                         + (IF ret.result.datasets[i].hasIntercept
                            THEN ret.result.datasets[i].intercept ELSE 0)]]

\* C15: load_dicom_series fails exactly when the directory is absent
\* (FileNotFoundError) or no file decodes (RuntimeError); otherwise it
\* succeeds with one volume slice per decodable file.
C15_AssemblyFailsOnlyWhenEmpty ==
    ret.op = "load_dicom_series" =>
        IF ~ret.exists THEN ~ret.result.ok /\ ret.result.err = "FileNotFoundError"
        ELSE IF Len(SelectSeq(ret.files, LAMBDA f : f.ok)) = 0
        THEN ~ret.result.ok /\ ret.result.err = "RuntimeError"
        ELSE /\ ret.result.ok
             /\ Len(ret.result.volume) = Len(SelectSeq(ret.files, LAMBDA f : f.ok))

\* 1-based position of the file called name in the listing
ListedAt(files, name) == CHOOSE k \in 1..Len(files) : files[k].name = name

\* C16: in an assembled result z_positions ascends, slices of equal z keep
\* their enumeration order, there is one entry per volume slice (one per
\* decodable file), z_positions[i], datasets[i] and volume[i] come from the
\* same input slice, and origin is the position of slice 0.
C16_SortedAlignedStable ==
    (ret.op = "load_dicom_series" /\ ret.result.ok) =>
        LET r == ret.result
            n == Len(r.datasets)
        IN  /\ Len(r.z_positions) = n /\ Len(r.volume) = n
            /\ n = Len(SelectSeq(ret.files, LAMBDA f : f.ok))
            /\ \A k \in 1..Len(ret.files) :
                  ret.files[k].ok => \E i \in 1..n : r.datasets[i] = ret.files[k]
            /\ \A i \in 1..n, j \in 1..n :
                  i < j => /\ r.z_positions[i] <= r.z_positions[j]
                           /\ r.datasets[i] # r.datasets[j]
                           /\ r.z_positions[i] = r.z_positions[j] =>
                                 ListedAt(ret.files, r.datasets[i].name)
                                    < ListedAt(ret.files, r.datasets[j].name)
            /\ \A i \in 1..n :
                  /\ r.z_positions[i] = r.datasets[i].z
                  /\ \E k \in 1..Len(ret.files) : ret.files[k] = r.datasets[i]
                  /\ r.volume[i] =
                        [y \in 1..Len(r.datasets[i].px) |->
                           [x \in 1..Len(r.datasets[i].px[y]) |->
                              r.datasets[i].px[y][x] * RescaleSlope(r.datasets[1])
                                 + RescaleIntercept(r.datasets[1])]]
            /\ r.origin = r.z_positions[1]

\* three slices, two of them at the same z, listed out of z order
C16_Witness ==
    /\ ret.op = "load_dicom_series" /\ ret.result.ok
    /\ Len(ret.result.datasets) = 3
    /\ ret.result.z_positions[1] = ret.result.z_positions[2]
    /\ ret.files[1].z > ret.files[2].z

\* ========================================================= plan persistence

\* C11: saving a plan for case A leaves the plan retrieved or applied for
\* every other case B unchanged (also when A and B differ only in where '/'
\* and '_' occur).
C11_PlansPerCase ==
    [][ret'.op = "save_planning" =>
          \A b \in Cases \ {ret'.case} :
              /\ (SafeCaseId(b) \in DOMAIN planFiles') <=> (SafeCaseId(b) \in DOMAIN planFiles)
              /\ SafeCaseId(b) \in DOMAIN planFiles =>
                    planFiles'[SafeCaseId(b)] = planFiles[SafeCaseId(b)]
      ]_vars

\* C12: get_planning answers 404 for a case with no persisted plan, returns
\* the persisted (most recently saved) plan record otherwise, and changes no
\* persisted state.
C12_GetPlanningPureLoad ==
    [][ret'.op = "get_planning" =>
          /\ planFiles' = planFiles
          /\ niiFiles' = niiFiles
          /\ seriesDirs' = seriesDirs
          /\ IF SafeCaseId(ret'.case) \in DOMAIN planFiles
             THEN /\ ret'.status = 200
                  /\ ret'.planning = planFiles[SafeCaseId(ret'.case)]
             ELSE ret'.status = 404
      ]_vars

\* ================================================= cropper, planning mapper

\* C17: with s' = max(0, s) and e' = min(N - 1, e), crop_volume fails when
\* s' > e' and otherwise returns exactly slices s'..e' in order (e' - s' + 1
\* of them, rows and columns whole, whatever fov is); cropping [0, N-1]
\* returns the input.
C17_CropReturnsClampedRange ==
    ret.op = "crop_volume" =>
        LET N == Len(ret.volume)
            s == IF ret.slice_start < 0 THEN 0 ELSE ret.slice_start
            e == IF ret.slice_end > N - 1 THEN N - 1 ELSE ret.slice_end
        IN  /\ s > e => ~ret.result.ok /\ ret.result.err = "ValueError"
            /\ s <= e =>
                  /\ ret.result.ok
                  /\ Len(ret.result.volume) = e - s + 1
                  /\ ret.result.geometry.num_slices = e - s + 1
                  /\ \A i \in 1..(e - s + 1) : ret.result.volume[i] = ret.volume[s + i]
                  /\ \A f \in FovInputs \cup {<<>>} :
                        crop_volume(ret.volume, ret.slice_start, ret.slice_end, f).volume
                            = ret.result.volume
            /\ (N > 0 /\ ret.slice_start = 0 /\ ret.slice_end = N - 1) =>
                  ret.result.ok /\ ret.result.volume = ret.volume

\* a crop whose end is clamped and that keeps the last two of three slices
C17_Witness ==
    /\ ret.op = "crop_volume" /\ ret.result.ok
    /\ Len(ret.volume) = 3
    /\ ret.slice_start = 1 /\ ret.slice_end > 2
    /\ ret.result.volume = SubSeq(ret.volume, 2, 3)
    /\ ret.fov # <<>>

\* i (0-based) is the index of the position nearest to z_mm in the ascending
\* list zs, the lower one of two equally near
NearestLowest(zs, i, z_mm) ==
    /\ \A j \in 1..Len(zs) :
          Abs(zs[i + 1] * z_mm[2] - z_mm[1]) <= Abs(zs[j] * z_mm[2] - z_mm[1])
    /\ \A j \in 1..i :
          Abs(zs[j] * z_mm[2] - z_mm[1]) > Abs(zs[i + 1] * z_mm[2] - z_mm[1])

\* zs holds the values of q in ascending order
AscendingOf(zs, q) ==
    /\ Len(zs) = Len(q)
    /\ \A i \in 1..Len(zs), j \in 1..Len(zs) : i < j => zs[i] <= zs[j]
    /\ \A v \in {q[i] : i \in 1..Len(q)} :
          Cardinality({i \in 1..Len(q) : q[i] = v}) = Cardinality({i \in 1..Len(zs) : zs[i] = v})

\* C18: map_z_mm_to_slice_indices fails on an empty list; otherwise each mm
\* value maps to the index of the nearest position of the ascending list
\* (the lower index of two equally near), and the pair returned is ordered
\* and within 0..N-1 whatever the order or range of the mm values.
C18_NearestIndicesOrdered ==
    ret.op = "map_z_mm_to_slice_indices" =>
        IF Len(ret.z_positions) = 0
        THEN ~ret.result.ok /\ ret.result.err = "ValueError"
        ELSE /\ ret.result.ok
             /\ 0 <= ret.result.slice_start
             /\ ret.result.slice_start <= ret.result.slice_end
             /\ ret.result.slice_end <= Len(ret.z_positions) - 1
             /\ \E zs \in [1..Len(ret.z_positions) ->
                             {ret.z_positions[i] : i \in 1..Len(ret.z_positions)}] :
                   /\ AscendingOf(zs, ret.z_positions)
                   /\ \E a \in 0..(Len(zs) - 1), b \in 0..(Len(zs) - 1) :
                         /\ NearestLowest(zs, a, ret.z_start_mm)
                         /\ NearestLowest(zs, b, ret.z_end_mm)
                         /\ ret.result.slice_start = IF a <= b THEN a ELSE b
                         /\ ret.result.slice_end = IF a <= b THEN b ELSE a

\* mm values given in descending order over a list given in descending
\* order, the first equally near two positions
C18_Witness ==
    /\ ret.op = "map_z_mm_to_slice_indices" /\ ret.result.ok
    /\ ret.z_positions = <<4, 2, 0>>
    /\ ret.z_start_mm = <<3, 1>> /\ ret.z_end_mm = <<-1, 1>>
    /\ ret.result.slice_start = 0 /\ ret.result.slice_end = 1

\* C19: for 50 slices at 0..49 mm, pixel range [100, 200] of a 400 px scout
\* gives slice_start = 12 and slice_end = 25.
C19_ScenarioIndices ==
    (/\ ret.op = "generate_planning_geometry"
     /\ ret.z_positions = ScenarioCall.z_positions
     /\ ret.z_pixel_start = ScenarioCall.z_pixel_start
     /\ ret.z_pixel_end = ScenarioCall.z_pixel_end
     /\ ret.scout_height_px = ScenarioCall.scout_height_px) =>
        /\ ret.result.ok
        /\ ret.result.plan.slice_start = 12
        /\ ret.result.plan.slice_end = 25

\* C19 as amended: the scenario gives z_start_mm = 12.25, z_end_mm = 24.5,
\* slice_start = 12 and slice_end = 24 (24.5 mm is equally near slices 24
\* and 25, and the lower index is taken).
C19_ScenarioIndicesLowerTie ==
    (/\ ret.op = "generate_planning_geometry"
     /\ ret.z_positions = ScenarioCall.z_positions
     /\ ret.z_pixel_start = ScenarioCall.z_pixel_start
     /\ ret.z_pixel_end = ScenarioCall.z_pixel_end
     /\ ret.scout_height_px = ScenarioCall.scout_height_px) =>
        /\ ret.result.ok
        /\ ret.result.plan.z_start_mm = <<49, 4>>
        /\ ret.result.plan.z_end_mm = <<49, 2>>
        /\ ret.result.plan.slice_start = 12
        /\ ret.result.plan.slice_end = 24

\* the scenario has been planned
C19_Witness ==
    /\ ret.op = "generate_planning_geometry"
    /\ Len(ret.z_positions) = 50
    /\ ret.z_pixel_start = 100 /\ ret.z_pixel_end = 200 /\ ret.scout_height_px = 400
    /\ ret.result.ok

\* C20: in every plan over uniformly spaced z-positions the position at
\* slice_start is within one slice spacing of z_start_mm and the position at
\* slice_end within one slice spacing of z_end_mm.
C20_PlanFieldsAgree ==
    (/\ ret.op = "generate_planning_geometry" /\ ret.result.ok
     /\ Len(ret.z_positions) >= 2 /\ ret.scout_height_px > 0) =>
        LET plan == ret.result.plan
            spacing == ret.z_positions[2] - ret.z_positions[1]
        IN  /\ Abs(ret.z_positions[plan.slice_start + 1] * plan.z_start_mm[2]
                     - plan.z_start_mm[1]) <= spacing * plan.z_start_mm[2]
            /\ Abs(ret.z_positions[plan.slice_end + 1] * plan.z_end_mm[2]
                     - plan.z_end_mm[1]) <= spacing * plan.z_end_mm[2]

\* ============================================== reconstruction, slice routes

\* C25: after a planned reconstruction has written its series, slice 0 of the
\* series lies at the original z-position of the first slice the crop kept,
\* z_positions[max(0, slice_start)].
C25_OriginIsFirstKeptSlice ==
    (/\ ret.op = "apply_reconstruction" /\ ret.status = 200 /\ ret.ran
     /\ ret.desc.used_planning
     /\ niiFiles[<<SafeCaseId(ret.case), ret.desc.recon_id>>].depth >= 1) =>
        LET plan == ret.desc.planning_ref[1]
            kept == IF plan.slice_start < 0 THEN 0 ELSE plan.slice_start
        IN  ReconFiles(ret.case, ret.desc.recon_id)[1].z
                = SortByZ(Listing(ret.case))[kept + 1].z

\* C26: for a case whose volume resolves, get_single_slice answers every
\* slice_index with the frame of slice max(0, min(slice_index, N - 1)), that
\* index and total_slices = N.
C26_SliceIndexClamped ==
    (/\ ret.op = "get_single_slice"
     /\ load_dicom_series(ret.case).ok) =>
        \A n \in {Len(load_dicom_series(ret.case).volume)} :
        \A clamped \in {IF ret.requested < 0 THEN 0
                        ELSE IF ret.requested > n - 1 THEN n - 1 ELSE ret.requested} :
            /\ ret.status = 200
            /\ ret.slice_index = clamped
            /\ ret.total_slices = n

\* C27: when the viewer slice endpoint has answered a request without a
\* reconstruction id, the cine slice endpoint asked for the same case and
\* use_planning flag resolves a volume with the same slice count and the same
\* slice at the requested index.
C27_ViewerAndCineAgree ==
    (/\ ret.op = "get_viewer_slice" /\ ~Truthy(ret.recon_id)
     /\ ret.status = 200 /\ "slice_img" \in DOMAIN ret) =>
        \A r \in {get_cached_volume(ret.case, ret.use_planning, ret.recon_id)} :
            /\ r.ok
            /\ Len(Materialise(r.heap, r.entry.volume)) = ret.total_slices
            /\ Materialise(r.heap, r.entry.volume)[ret.requested + 1] = ret.slice_img

\* C28: in every descriptor apply_reconstruction returns, used_planning is
\* true exactly when the artifact it references was built from the
\* plan-cropped volume, and planning_ref is the plan it was built with.
C28_DescriptorMatchesArtifact ==
    (ret.op = "apply_reconstruction" /\ ret.status = 200) =>
        \A art \in {niiFiles[<<SafeCaseId(ret.case), ret.desc.recon_id>>]} :
            /\ ret.desc.used_planning = art.cropped
            /\ art.cropped => ret.desc.planning_ref = art.plan

\* C29: the geometry record crop_volume returns describes the crop performed:
\* num_slices = slice_end - slice_start + 1, and slice_start and slice_end are
\* the indices of the first and the last slice kept.
C29_GeometryDescribesCrop ==
    (ret.op = "crop_volume" /\ ret.result.ok) =>
        \A g \in {ret.result.geometry} :
            /\ g.num_slices = g.slice_end - g.slice_start + 1
            /\ g.num_slices = Len(ret.result.volume)
            /\ ret.result.volume[1] = ret.volume[g.slice_start + 1]
            /\ ret.result.volume[g.num_slices] = ret.volume[g.slice_end + 1]

\* C30: whenever no get_cached_volume call is in flight, the orchestrator
\* cache holds at most 3 entries.
C30_CacheBoundedWhenQuiescent ==
    (\A t \in Threads : threads[t].pc = "idle") => Len(volumeCache) <= CacheCapacity

\* ================================================================ windowing
\* C23: with width > 0 every HU value at or below center - width/2 is drawn
\* as 0 and every value at or above center + width/2 as 255, the drawn value
\* does not decrease with the HU value and, for a fixed width and HU value,
\* does not increase with the center; with width <= 0 apply_window fails
\* with InvalidInput instead of producing an image
C23_WindowClampsMonotone ==
    ret.op = "apply_window" =>
        IF ret.width[1] <= 0
        THEN ~ret.result.ok /\ ret.result.error = "ValueError"
        ELSE /\ ret.result.ok
             /\ ret.result.value \in 0..255
             /\ 2 * ret.v * ret.center[2] * ret.width[2]
                   <= 2 * ret.center[1] * ret.width[2] - ret.width[1] * ret.center[2]
                      => ret.result.value = 0
             /\ 2 * ret.v * ret.center[2] * ret.width[2]
                   >= 2 * ret.center[1] * ret.width[2] + ret.width[1] * ret.center[2]
                      => ret.result.value = 255
             /\ \A v2 \in {ret.v + 1, ret.v + 40} :
                   apply_window_f32(v2, ret.center, ret.width) >= ret.result.value
             /\ \A c2 \in {<<ret.center[1] + 1, ret.center[2]>>,
                           <<ret.center[1] + 40 * ret.center[2], ret.center[2]>>} :
                   apply_window_f32(ret.v, c2, ret.width) <= ret.result.value

\* ============================================================== resampling
\* C21: resampling an N-slice volume of slice spacing d to thickness t yields
\* floor(N*d/t) slices and leaves the row and column counts unchanged, the
\* series written for it holds exactly the files of indices 0..count-1, and
\* 40 slices at 1 mm resampled to 5 mm give 8 slices
C21_ResampledCounts ==
    ret.op = "resample_slice_thickness" =>
        \A count \in {(ret.size[3] * ret.spacing[3][1] * ret.new_thickness[2])
                         \div (ret.spacing[3][2] * ret.new_thickness[1])} :
            /\ ret.new_size[1] = ret.size[1]
            /\ ret.new_size[2] = ret.size[2]
            /\ ret.new_size[3] = count
            /\ ret.files = [k \in 1..count |-> k - 1]
            /\ (/\ ret.size[3] = 40 /\ ret.spacing[3] = <<1, 1>>
                /\ ret.new_thickness = <<5, 1>>) => Len(ret.files) = 8

\* ========================================================== mesh extraction
\* C24: generate_stl on a volume whose isosurface at the threshold has no
\* vertex (every voxel on the same side of it, as threshold 200 on all air)
\* fails with NoSurfaceFound, the ValueError, which the caller tells apart
\* from a ProcessingError (RuntimeError), and neither creates nor tracks a
\* transient mesh file
C24_NoSurfaceFound ==
    (/\ ret.op = "generate_stl"
     /\ \/ \A z \in 1..2, y \in 1..2, x \in 1..2 : ret.volume[z][y][x] >= ret.hu
        \/ \A z \in 1..2, y \in 1..2, x \in 1..2 : ret.volume[z][y][x] < ret.hu) =>
        /\ ~ret.result.ok
        /\ ret.result.error = "ValueError"
        /\ ret.status = 400
        /\ ret.result.temp_files = ret.tracked_before

\* ===================================================================== MPR
\* C22: get_mpr_metadata reports axial = Z, sagittal = Y and coronal = X of a
\* volume of shape (Z, Y, X), and generate_mpr_slice succeeds exactly when
\* 0 <= slice_index < the bound of the orientation, failing with InvalidInput
\* for every negative index and every index at or above the bound
C22_MprBounds ==
    /\ ret.op = "get_mpr_metadata" =>
          /\ ret.result.axial_slices = Len(ret.volume)
          /\ ret.result.sagittal_slices = Len(ret.volume[1])
          /\ ret.result.coronal_slices = Len(ret.volume[1][1])
    /\ (ret.op = "generate_mpr_slice" /\ ret.orientation \in Orientations) =>
          \A bound \in {IF ret.orientation = "axial" THEN Len(ret.volume)
                        ELSE IF ret.orientation = "sagittal" THEN Len(ret.volume[1])
                        ELSE Len(ret.volume[1][1])} :
              /\ ret.result.ok <=> (0 <= ret.slice_index /\ ret.slice_index < bound)
              /\ ~ret.result.ok => ret.result.error = "ValueError"

\* C22 as amended: the slice request succeeds exactly when the index is within
\* the bound of the orientation and the window width is positive; every other
\* request fails with InvalidInput
C22_MprBoundsPositiveWidth ==
    /\ ret.op = "get_mpr_metadata" =>
          /\ ret.result.axial_slices = Len(ret.volume)
          /\ ret.result.sagittal_slices = Len(ret.volume[1])
          /\ ret.result.coronal_slices = Len(ret.volume[1][1])
    /\ (ret.op = "generate_mpr_slice" /\ ret.orientation \in Orientations) =>
          \A bound \in {IF ret.orientation = "axial" THEN Len(ret.volume)
                        ELSE IF ret.orientation = "sagittal" THEN Len(ret.volume[1])
                        ELSE Len(ret.volume[1][1])} :
              /\ ret.result.ok <=> (/\ 0 <= ret.slice_index /\ ret.slice_index < bound
                                    /\ ret.window_width > 0)
              /\ ~ret.result.ok => ret.result.error = "ValueError"
              /\ ret.result.ok =>
                    /\ Len(ret.result.image) =
                          (IF ret.orientation = "axial" THEN Len(ret.volume[1])
                           ELSE Len(ret.volume))
                    /\ \A r \in 1..Len(ret.result.image) :
                          Len(ret.result.image[r]) =
                             (IF ret.orientation = "coronal" THEN Len(ret.volume[1])
                              ELSE Len(ret.volume[1][1]))

\* a sagittal slice at an index the Y bound allows and the Z and X bounds
\* would not
C22_Witness ==
    /\ ret.op = "generate_mpr_slice" /\ ret.result.ok
    /\ ret.orientation = "sagittal" /\ ret.slice_index = 2
    /\ Len(ret.volume) = 1 /\ Len(ret.volume[1]) = 3 /\ Len(ret.volume[1][1]) = 2

====
